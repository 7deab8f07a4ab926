--------------------------- MODULE ObservedReport ---------------------------
(***************************************************************************)
(* What a tool call of an agent says about a command the agent runs        *)
(* (backend/src/tasks/observed.rs, with the callers in                     *)
(* backend/src/acp/mod.rs).  A payload is reduced to what the rules look   *)
(* at; the names under which agents hide it are left out.                  *)
(***************************************************************************)
LOCAL INSTANCE Naturals

Nil == "none"

\* `command`: found in a structured field, in a title with a command's marks, or
\* in neither; `detail`: output under a name only terminals use, or any output
\* beside a working directory; `raw` and `typed`: the status in the payload and
\* the one of the protocol, lower case, by what they mean.
Payload ==
    [kind : {Nil, "execute", "other", "edit"}, update : BOOLEAN,
     command : {Nil, "structured", "title"}, exit : {Nil, "zero", "other"},
     detail : {Nil, "specific", "placed"}, embeds : BOOLEAN,
     raw : {Nil, "running", "completed", "failed", "stopped", "unknown"},
     typed : {Nil, "running", "completed", "failed"}]

\* is_non_terminal_kind: reads, edits, searches and the like.
NonTerminalKind(kind) == kind = "edit"

\* map_state_from_strings: a stop beats the exit code, which beats the status.
StateOf(p) ==
    LET said == IF p.raw # Nil THEN p.raw ELSE p.typed IN
    CASE p.raw = "stopped" -> "stopped"
      [] p.raw # "stopped" /\ p.exit = "zero" -> "completed"
      [] p.raw # "stopped" /\ p.exit = "other" -> "failed"
      [] OTHER -> IF said \in {"completed", "failed"} THEN said ELSE "running"

Evidence(kind, p) == kind = "execute" \/ p.exit # Nil \/ p.detail # Nil

\* parse_observed_update
Parses(kind, command, p) ==
    /\ ~NonTerminalKind(kind)
    /\ command # Nil
    /\ Evidence(kind, p)

KindOr(p, default) == IF p.kind = Nil THEN default ELSE p.kind

\* ingest_tool_call_task and ingest_tool_call_update_task: what a payload that
\* names no terminal of Batey's leads to.  An update without a command may still
\* be merged into a task, whose command then stands for it.
Report(p) ==
    CASE p.update /\ NonTerminalKind(p.kind) -> [does |-> "nothing"]
      [] Parses(KindOr(p, "other"), p.command, p) -> [does |-> "upsert", state |-> StateOf(p)]
      [] p.update /\ Parses(KindOr(p, "execute"), "title", p) ->
             [does |-> "merge", state |-> StateOf(p)]
      [] OTHER -> [does |-> "nothing"]

Reports == {[of |-> Report(p), embeds |-> p.embeds] : p \in Payload}
=============================================================================
