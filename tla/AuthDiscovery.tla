---------------------------- MODULE AuthDiscovery ----------------------------
(***************************************************************************)
(* What the hub knows of one agent's authentication (auth/service.rs,      *)
(* store/auth_cache.rs): the durable cache of the methods the agent        *)
(* advertises and of the evidence of a login, the probes that fill it, the *)
(* changes of the agent that make it stale, and the requests that          *)
(* authenticate and log out.                                               *)
(*                                                                         *)
(* A probe takes its start time, starts the agent, compares the start time *)
(* with the last invalidation and saves; `overtaken` holds the probes that *)
(* an invalidation has passed, so no clock is needed.                      *)
(***************************************************************************)
EXTENDS Naturals, FiniteSets

CONSTANTS
    Asker,      \* requests to the authentication service
    Nobody,     \* the refresh lock is free
    MaxChange,  \* bound: changes of the agent
    MaxCrash    \* bound: crashes

ASSUME AuthAssumption ==
    MaxChange \in Nat /\ MaxCrash \in Nat /\ Nobody \notin Asker

VARIABLES
    edition,    \* the agent's definition and environment, counted from 1
    present,    \* the agent is in the catalog
    cache,      \* its row of agent_auth_cache
    turn,       \* the refresh lock of the agent
    ask, job,   \* per request: the next step, and what was asked
    seen,       \* the edition its agent process was started from
    outcome,    \* of its probe
    heard,      \* the outcome of an attempt that ended since it was asked
    overtaken,  \* probes that began before the last invalidation
    saved,      \* requests since which a probe of theirs, or a refresh, was committed
    change,     \* the change under way: its next step
    crashes

probing == <<turn, ask, job, seen, outcome, heard, overtaken, saved>>
adVars == <<edition, present, cache, probing, change, crashes>>

\* Methods are those of the edition the agent was started from; 0 without a probe.
NoRow == [row |-> FALSE, methods |-> 0, stale |-> FALSE, observed |-> "unknown"]
Editions == 1..MaxChange + 1
Evidence == {"unknown", "required", "authenticated"}

AdInit ==
    /\ edition = 1 /\ present = TRUE /\ cache = NoRow
    /\ turn = Nobody
    /\ ask = [a \in Asker |-> "idle"] /\ job = [a \in Asker |-> "refresh"]
    /\ seen = [a \in Asker |-> 0]
    /\ outcome = [a \in Asker |-> "none"] /\ heard = [a \in Asker |-> "none"]
    /\ overtaken = {} /\ saved = {}
    /\ change = "none" /\ crashes = 0

-----------------------------------------------------------------------------
Go(a, label) == ask' = [ask EXCEPT ![a] = label]

\* The request is over; what it had read goes with it.
Done(a) ==
    /\ Go(a, "idle") /\ job' = [job EXCEPT ![a] = "refresh"]
    /\ seen' = [seen EXCEPT ![a] = 0]
    /\ outcome' = [outcome EXCEPT ![a] = "none"] /\ heard' = [heard EXCEPT ![a] = "none"]
    /\ overtaken' = overtaken \ {a} /\ saved' = saved \ {a}
    /\ turn' = IF turn = a THEN Nobody ELSE turn

\* A probe begins: its start time is now.
Begins(a) ==
    /\ Go(a, "connect") /\ overtaken' = overtaken \ {a}
    /\ UNCHANGED <<seen, saved>>

-----------------------------------------------------------------------------
(* refresh: one probe at a time, shared by the requests that waited        *)

AskRefresh(a) ==
    /\ ask[a] = "idle" /\ present
    /\ Go(a, "waiting") /\ job' = [job EXCEPT ![a] = "refresh"]
    /\ UNCHANGED <<edition, present, cache, turn, seen, outcome, heard, overtaken, saved,
                   change, crashes>>

\* The attempts this request may take over: those that ended after it was asked.
Shared(a) == heard[a]

TakeTurn(a) ==
    /\ ask[a] = "waiting" /\ turn = Nobody /\ turn' = a
    /\ IF Shared(a) # "none"
       THEN /\ Go(a, "answer") /\ outcome' = [outcome EXCEPT ![a] = Shared(a)]
            /\ UNCHANGED <<seen, overtaken, saved>>
       ELSE Begins(a) /\ UNCHANGED outcome
    /\ UNCHANGED <<edition, present, cache, job, heard, change, crashes>>

\* authenticate and logout begin with a connection of their own.
AskChange(a, j) ==
    /\ ask[a] = "idle" /\ Begins(a) /\ job' = [job EXCEPT ![a] = j]
    /\ UNCHANGED <<edition, present, cache, turn, outcome, heard, change, crashes>>

-----------------------------------------------------------------------------
(* probe: connect, cache_write_full                                        *)

\* The runtime is read, the agent starts and answers initialize.
Connect(a) ==
    /\ ask[a] = "connect" /\ present /\ Go(a, "check")
    /\ seen' = [seen EXCEPT ![a] = edition]
    /\ UNCHANGED <<edition, present, cache, turn, job, outcome, heard, overtaken, saved,
                   change, crashes>>

\* It is not available, does not start, or does not answer in time.
ConnectFails(a) ==
    /\ ask[a] = "connect"
    /\ IF job[a] = "refresh"
       THEN /\ Go(a, "attempted") /\ outcome' = [outcome EXCEPT ![a] = "failed"]
            /\ UNCHANGED <<turn, job, seen, heard, overtaken, saved>>
       ELSE Done(a)
    /\ UNCHANGED <<edition, present, cache, change, crashes>>

\* Where a request goes after its probe.
AfterProbe(a) ==
    CASE job[a] = "refresh" -> "attempted"
      [] job[a] \in {"authenticate", "logout"} -> "ask_agent"
      [] OTHER -> "answer"

\* A probe that began before the last invalidation is not saved.
Superseded(a) ==
    /\ ask[a] = "check" /\ a \in overtaken
    /\ Go(a, AfterProbe(a)) /\ outcome' = [outcome EXCEPT ![a] = "skipped"]
    /\ UNCHANGED <<edition, present, cache, turn, job, seen, heard, overtaken, saved,
                   change, crashes>>

Passes(a) ==
    /\ ask[a] = "check" /\ a \notin overtaken /\ Go(a, "save")
    /\ UNCHANGED <<edition, present, cache, turn, job, seen, outcome, heard, overtaken, saved,
                   change, crashes>>

\* store::auth_cache::save merges with the evidence in the row.
SavedRow(a) == [row |-> TRUE, methods |-> seen[a], stale |-> FALSE, observed |-> cache.observed]

Save(a) ==
    /\ ask[a] = "save" /\ Go(a, AfterProbe(a))
    /\ cache' = SavedRow(a)
    /\ outcome' = [outcome EXCEPT ![a] = "committed"]
    /\ saved' = saved \cup {a}
    /\ UNCHANGED <<edition, present, turn, job, seen, heard, overtaken, change, crashes>>

-----------------------------------------------------------------------------
\* Fault: an earlier attempt is handed to the next request as well.
HeardByAll(a) == [b \in Asker |-> outcome[a]]

\* Requests that were asked before this attempt ended.
HeardBy(a) == [b \in Asker |-> IF ask[b] = "waiting" THEN outcome[a] ELSE heard[b]]

\* last_refresh_attempt is stamped now: the requests that wait will see it.
Attempted(a) ==
    /\ ask[a] = "attempted" /\ Go(a, "answer")
    /\ heard' = HeardBy(a)
    /\ saved' = saved \cup {b \in Asker : ask[b] # "idle" /\ outcome[a] = "committed"}
    /\ UNCHANGED <<edition, present, cache, turn, job, seen, outcome, overtaken,
                   change, crashes>>

\* The answer is built from the cache; it is fresh when a probe was committed.
AnswersFresh(a) == outcome[a] = "committed" /\ cache.methods # 0

Answer(a) ==
    /\ ask[a] = "answer" /\ Done(a)
    /\ UNCHANGED <<edition, present, cache, change, crashes>>

-----------------------------------------------------------------------------
(* authenticate and logout                                                 *)

\* save_observed keeps the methods and the marker, and makes a row when there
\* is none.
Observes(evidence) ==
    [row |-> TRUE, methods |-> cache.methods, stale |-> cache.stale, observed |-> evidence]

AgentAgrees(a) ==
    /\ ask[a] = "ask_agent" /\ Go(a, "note")
    /\ UNCHANGED <<edition, present, cache, turn, job, seen, outcome, heard, overtaken, saved,
                   change, crashes>>

AgentRefuses(a) ==
    /\ ask[a] = "ask_agent" /\ Done(a)
    /\ UNCHANGED <<edition, present, cache, change, crashes>>

\* The evidence is recorded; refresh_after_change probes again.
Note(a) ==
    /\ ask[a] = "note" /\ Begins(a)
    /\ cache' = Observes(IF job[a] = "logout" THEN "required" ELSE "authenticated")
    /\ job' = [job EXCEPT ![a] = "again"]
    /\ outcome' = [outcome EXCEPT ![a] = "none"]
    /\ UNCHANGED <<edition, present, turn, heard, change, crashes>>

\* note_auth_required, when a session setup is refused.
SessionRefused ==
    /\ cache' = Observes("required")
    /\ UNCHANGED <<edition, present, probing, change, crashes>>

\* note_session_success moves AuthenticationRequired forward only.
SessionAccepted ==
    /\ cache.observed = "required" /\ cache' = Observes("authenticated")
    /\ UNCHANGED <<edition, present, probing, change, crashes>>

-----------------------------------------------------------------------------
(* Changes of the agent: an update, an edit, an environment override, a    *)
(* removal and a new install under the same id                             *)

Change ==
    /\ change = "none" /\ edition <= MaxChange /\ present
    /\ edition' = edition + 1 /\ change' = "invalidate"
    /\ UNCHANGED <<present, cache, probing, crashes>>

Remove ==
    /\ change = "none" /\ present /\ edition <= MaxChange
    /\ present' = FALSE /\ change' = "forget"
    /\ UNCHANGED <<edition, cache, probing, crashes>>

Reinstall ==
    /\ change = "none" /\ ~present
    /\ present' = TRUE /\ edition' = edition + 1 /\ change' = "invalidate"
    /\ UNCHANGED <<cache, probing, crashes>>

Probing == {a \in Asker : ask[a] \in {"connect", "check", "save"}}

\* invalidate_agent, forget_agent: invalidated_at is set first ...
Overtake ==
    /\ change \in {"invalidate", "forget"}
    /\ change' = IF change = "forget" THEN "delete" ELSE "mark"
    /\ overtaken' = overtaken \cup Probing
    /\ UNCHANGED <<edition, present, cache, turn, ask, job, seen, outcome, heard, saved, crashes>>

\* ... then the row is marked stale, if there is one, or deleted.
Mark ==
    /\ change = "mark" /\ change' = "none"
    /\ cache' = [cache EXCEPT !.stale = cache.row]
    /\ UNCHANGED <<edition, present, probing, crashes>>

Forget ==
    /\ change = "delete" /\ change' = "none" /\ cache' = NoRow
    /\ UNCHANGED <<edition, present, probing, crashes>>

\* The hub dies: the cache stays, the instants and the locks do not.
Crash ==
    /\ crashes < MaxCrash /\ crashes' = crashes + 1
    /\ turn' = Nobody /\ change' = "none"
    /\ ask' = [a \in Asker |-> "idle"] /\ job' = [a \in Asker |-> "refresh"]
    /\ seen' = [a \in Asker |-> 0]
    /\ outcome' = [a \in Asker |-> "none"] /\ heard' = [a \in Asker |-> "none"]
    /\ overtaken' = {} /\ saved' = {}
    /\ UNCHANGED <<edition, present, cache>>

AdNext ==
    \/ \E a \in Asker :
        \/ AskRefresh(a) \/ TakeTurn(a) \/ \E j \in {"authenticate", "logout"} : AskChange(a, j)
        \/ Connect(a) \/ ConnectFails(a) \/ Superseded(a) \/ Passes(a) \/ Save(a)
        \/ Attempted(a) \/ Answer(a) \/ AgentAgrees(a) \/ AgentRefuses(a) \/ Note(a)
    \/ SessionRefused \/ SessionAccepted
    \/ Change \/ Remove \/ Reinstall \/ Overtake \/ Mark \/ Forget \/ Crash

-----------------------------------------------------------------------------
CacheRow ==
    [row : {TRUE}, methods : {0} \cup Editions, stale : BOOLEAN, observed : Evidence]

AdTypeOK ==
    /\ edition \in Editions /\ present \in BOOLEAN
    /\ cache \in CacheRow \cup {NoRow}
    /\ turn \in Asker \cup {Nobody}
    /\ ask \in [Asker -> {"idle", "waiting", "connect", "check", "save", "attempted",
                          "ask_agent", "note", "answer"}]
    /\ job \in [Asker -> {"refresh", "authenticate", "logout", "again"}]
    /\ seen \in [Asker -> {0} \cup Editions]
    /\ outcome \in [Asker -> {"none", "committed", "skipped", "failed"}]
    /\ heard \in [Asker -> {"none", "committed", "skipped", "failed"}]
    /\ overtaken \subseteq Asker /\ saved \subseteq Asker
    /\ change \in {"none", "invalidate", "forget", "mark", "delete"}
    /\ crashes \in 0..MaxCrash

\* A request that answers "fresh" rests on a probe that was committed and ended
\* since it was asked, its own or the one it waited for; never on an attempt that
\* ended before, and never on one that failed or was superseded
\* (service.rs:496-547).
FreshIsSince ==
    [][\A a \in Asker :
        ask[a] = "answer" /\ ask'[a] = "idle" /\ AnswersFresh(a) => a \in saved]_adVars

\* A probe, a stale mark or a crash never changes the recorded evidence of a
\* login, whatever was recorded while the probe ran (service.rs:1353-1357).
ProbeKeepsEvidence ==
    [][cache'.row /\ (cache'.methods # cache.methods \/ cache'.stale # cache.stale)
        => cache'.observed = cache.observed]_adVars

\* What is known of an agent's authentication is not older than it is said to be, and
\* no probe undoes what was seen since (service.rs:496-547, 1353-1426).
EvidenceHolds == FreshIsSince /\ ProbeKeepsEvidence
=============================================================================
