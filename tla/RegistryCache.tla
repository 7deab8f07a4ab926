---------------------------- MODULE RegistryCache ----------------------------
(***************************************************************************)
(* The catalog of the ACP Registry (agents/registry/client.rs): a copy in  *)
(* memory, a file on disk, requests that refresh them at once, documents   *)
(* that may be bad; and what an installation takes from the catalog        *)
(* (manifest.rs, install.rs): the entries that are accepted, the           *)
(* distribution chosen for this host, the pinned version.                  *)
(*                                                                         *)
(* A document is [major, entries]; an entry is [id, binary, npx, uvx],     *)
(* where binary is "here", "elsewhere" (other platforms) or "no", and npx  *)
(* and uvx are "pinned", "floating" or "no". A distribution that fails its *)
(* validation counts as "no".                                              *)
(***************************************************************************)
EXTENDS Naturals, FiniteSets, Sequences

CONSTANTS
    Visitor,   \* requests
    Document,  \* what the registry may publish
    Unread,    \* no document, or one that does not parse
    MaxDeath   \* bounds the restarts of the hub

ASSUME CatalogAssumption == MaxDeath \in Nat

VARIABLES
    online,    \* the document at the registry's URL
    memory,    \* the parsed copy: a document or Unread
    disk,      \* the cached file: a document or Unread
    browse,    \* browse[b]: step, purpose and document in hand of a request
    plan,      \* plan[b]: the installation it has decided on
    deaths

rcVars == <<online, memory, disk, browse, plan, deaths>>

Kinds == {"binary", "npx", "uvx"}
Purposes == {"browse", "install"}
Resting == [step |-> "rest", for |-> "browse", doc |-> Unread]
NoPlan == [doc |-> Unread, id |-> "none", kind |-> "none"]

-----------------------------------------------------------------------------
(* manifest.rs                                                             *)

\* is_empty
Published(e) == {k \in Kinds : e[k] # "no"}

\* An id that occurs twice is rejected wherever it occurs.
RejectedEntry(d, i) ==
    \/ Published(d.entries[i]) = {}
    \/ \E j \in DOMAIN d.entries : j # i /\ d.entries[j].id = d.entries[i].id

\* parse_catalog: Unread is a document that is not well formed.
Parses(d) == d # Unread /\ d.major = 1
Accepted(d) == {d.entries[i] : i \in {j \in DOMAIN d.entries : ~RejectedEntry(d, j)}}

-----------------------------------------------------------------------------
(* install.rs                                                              *)

\* Fault: a binary of another platform will do.
SelectAnyBinary(e, preferred) ==
    IF preferred # "any" THEN (IF e[preferred] = "no" THEN "none" ELSE preferred)
    ELSE IF e.binary # "no" THEN "binary"
    ELSE IF e.npx # "no" THEN "npx" ELSE IF e.uvx # "no" THEN "uvx" ELSE "none"

\* select: a preference is honoured or refused; else a binary for this host, npx,
\* uvx, in that order.
Select(e, preferred) ==
    IF preferred = "binary" THEN (IF e.binary = "here" THEN "binary" ELSE "none")
    ELSE IF preferred # "any" THEN (IF e[preferred] = "no" THEN "none" ELSE preferred)
    ELSE IF e.binary = "here" THEN "binary"
    ELSE IF e.npx # "no" THEN "npx" ELSE IF e.uvx # "no" THEN "uvx" ELSE "none"

\* ensure_pinned, of a package
Pinned(e, kind) == kind = "binary" \/ e[kind] = "pinned"

-----------------------------------------------------------------------------
(* client.rs                                                               *)

RcInit ==
    /\ online \in Document /\ memory = Unread /\ disk \in Document \cup {Unread}
    /\ browse = [b \in Visitor |-> Resting] /\ plan = [b \in Visitor |-> NoPlan]
    /\ deaths = 0

Set(b, r) == browse' = [browse EXCEPT ![b] = r]
Goes(b, step, doc) == Set(b, [step |-> step, for |-> browse[b].for, doc |-> doc])

\* A request ends with the document its answer is made of, or an error. An
\* installation resolves one entry, selects and prepares.
Concludes(b, purpose, doc) ==
    /\ Set(b, Resting)
    /\ IF purpose = "install" /\ doc # Unread
       THEN \E e \in Accepted(doc), preferred \in Kinds \cup {"any"} :
            LET kind == Select(e, preferred) IN
            plan' = [plan EXCEPT ![b] =
                IF kind = "none" \/ ~Pinned(e, kind) THEN NoPlan
                ELSE [doc |-> doc, id |-> e.id, kind |-> kind]]
       ELSE UNCHANGED plan

\* An accepted catalog, or none to choose from.
ConcludesWith(b, purpose, doc) ==
    IF purpose = "install" /\ doc # Unread /\ Accepted(doc) = {}
    THEN Set(b, Resting) /\ UNCHANGED plan
    ELSE Concludes(b, purpose, doc)

\* cached(): the copy in memory.
FromMemory(b, purpose) ==
    /\ browse[b] = Resting /\ memory # Unread
    /\ ConcludesWith(b, purpose, memory)
    /\ UNCHANGED <<online, memory, disk, deaths>>

\* cached(): nothing in memory; the file is read and parsed ...
ReadCache(b, purpose) ==
    /\ browse[b] = Resting /\ memory = Unread
    /\ Set(b, [step |-> IF Parses(disk) THEN "loaded" ELSE "fetch", for |-> purpose, doc |-> disk])
    /\ UNCHANGED <<online, memory, disk, plan, deaths>>

\* ... and its catalog put in memory, whatever is there by now.
KeepLoaded(b) ==
    /\ browse[b].step = "loaded" /\ memory' = browse[b].doc
    /\ ConcludesWith(b, browse[b].for, browse[b].doc)
    /\ UNCHANGED <<online, disk, deaths>>

\* registry_catalog with refresh
Refresh(b) ==
    /\ browse[b] = Resting
    /\ browse' = [browse EXCEPT ![b].step = "fetch"]
    /\ UNCHANGED <<online, memory, disk, plan, deaths>>

\* Fault: the empty catalog of a bad document replaces the good one.
UsableIfParsed(d) == Parses(d)

\* refresh(): an EmptyCatalog is an error.
UsableDocument(d) == Parses(d) /\ Accepted(d) # {}

Fetched(b) ==
    /\ browse[b].step = "fetch"
    /\ Goes(b, IF UsableDocument(online) THEN "write" ELSE "failed", online)
    /\ UNCHANGED <<online, memory, disk, plan, deaths>>

\* The network, or a document that is not UTF-8.
FetchFails(b) ==
    /\ browse[b].step = "fetch" /\ Goes(b, "failed", Unread)
    /\ UNCHANGED <<online, memory, disk, plan, deaths>>

\* write_atomic: the old file or the new one.
Outcomes(d) == {disk, d}

WriteCache(b) ==
    /\ browse[b].step = "write" /\ disk' \in Outcomes(browse[b].doc)
    /\ Goes(b, "keep", browse[b].doc)
    /\ UNCHANGED <<online, memory, plan, deaths>>

KeepFetched(b) ==
    /\ browse[b].step = "keep" /\ memory' = browse[b].doc
    /\ ConcludesWith(b, browse[b].for, browse[b].doc)
    /\ UNCHANGED <<online, disk, deaths>>

\* refresh_or_cached falls back on cached(); resolve_registry_agent does not.
FallBack(b) ==
    /\ browse[b].step = "failed"
    /\ IF browse[b].for = "browse" /\ memory = Unread /\ Parses(disk)
       THEN Goes(b, "loaded", disk)
       ELSE Set(b, Resting)
    /\ UNCHANGED <<online, memory, disk, plan, deaths>>

Publishes(d) == online' = d /\ UNCHANGED <<memory, disk, browse, plan, deaths>>

\* The hub dies. A write under way may have reached the file.
Dies ==
    /\ deaths < MaxDeath /\ deaths' = deaths + 1
    /\ memory' = Unread
    /\ \/ UNCHANGED disk
       \/ \E b \in Visitor : browse[b].step = "write" /\ disk' \in Outcomes(browse[b].doc)
    /\ browse' = [b \in Visitor |-> Resting] /\ plan' = [b \in Visitor |-> NoPlan]
    /\ UNCHANGED online

RcNext ==
    \/ \E b \in Visitor :
        \/ \E p \in Purposes : FromMemory(b, p) \/ ReadCache(b, p)
        \/ KeepLoaded(b) \/ Refresh(b) \/ Fetched(b) \/ FetchFails(b)
        \/ WriteCache(b) \/ KeepFetched(b) \/ FallBack(b)
    \/ \E d \in Document : Publishes(d)
    \/ Dies

-----------------------------------------------------------------------------
RcTypeOK ==
    /\ online \in Document /\ memory \in Document \cup {Unread}
    /\ disk \in Document \cup {Unread} /\ deaths \in 0 .. MaxDeath
    /\ \A b \in Visitor : browse[b].for \in Purposes

HasAgents(d) == Parses(d) /\ Accepted(d) # {}

\* client.rs:3-6, "A refresh failure is never destructive. The last catalog that
\* parsed stays on disk and in memory": no failure, bad document, race of
\* refreshes or crash empties or tears the file, and memory always has a catalog
\* again once it had one. (Which one may go back: a file read before a refresh is
\* put in memory after it, and an earlier build may have left an empty one.)
GoodCatalogStays ==
    [][/\ HasAgents(disk) => HasAgents(disk')
       /\ deaths' = deaths /\ Parses(memory) => Parses(memory')]_rcVars

\* What is installed was accepted in one catalog, runs on this host, has an exact
\* version, and is a package only if no binary fits or a package was asked for
\* (manifest.rs:184-205, install.rs:27-29, 390-392).
PlansFit ==
    \A b \in Visitor : plan[b] # NoPlan =>
        \E e \in Accepted(plan[b].doc) :
            /\ e.id = plan[b].id
            /\ \A j, k \in DOMAIN plan[b].doc.entries :
                plan[b].doc.entries[j].id = e.id /\ plan[b].doc.entries[k].id = e.id => j = k
            /\ e[plan[b].kind] = IF plan[b].kind = "binary" THEN "here" ELSE "pinned"
=============================================================================
