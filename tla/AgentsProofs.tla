---------------------------- MODULE AgentsProofs ----------------------------
(***************************************************************************)
(* Proofs about the parts of MCAgents: InstalledAgents, for every set of   *)
(* versions and of requests, AuthDiscovery, for every set of requests,     *)
(* AuthFlows, for every set of browsers and of flows, AgentOperations, for *)
(* every set of operations and of agents, and RegistryCache, for every set *)
(* of visitors and of documents.                                           *)
(***************************************************************************)
EXTENDS InstalledAgents, AuthDiscovery, AuthFlows, AgentOperations, RegistryCache,
        FiniteSetTheorems, TLAPS

-----------------------------------------------------------------------------
(* An agent under management.  What a request finds under mutation_lock    *)
(* (its id is free, its row is of the registry, the version is another) is *)
(* the invariant's matter: the lock keeps it for as long as the request    *)
(* needs it.  Files of a previous version are removed later, outside the   *)
(* lock: what protects them is the one registered operation.               *)

AgSpec == AgInit /\ [][AgNext]_agVars

\* Places of a request that holds mutation_lock, and those where the row is
\* written and the catalog is not.
UnderLock == {"resolve", "fetch", "place", "row", "entry",
              "retire", "retire_entry", "delete", "delete_entry", "files"}
RowAhead == {"entry", "retire_entry", "delete_entry"}

\* Every place belongs to the operations whose code reaches it.
OpsPlace ==
    \A m \in Manager :
        /\ at[m] \in {"resolve", "fetch", "place"} => op[m] \in {"install", "update"}
        /\ at[m] \in {"row", "entry"} => op[m] # "remove"
        /\ at[m] \in {"look", "drop"} => op[m] = "update"

\* One request at a time is under mutation_lock, one operation is registered.
LockHeld == \A m \in Manager : at[m] \in UnderLock => mutex = m
OneRegistered ==
    \A m \in Manager : at[m] # "idle" /\ op[m] \in {"install", "update"} => registered = {m}

CatalogFollows == (\A m \in Manager : at[m] \notin RowAhead) => entry = row

\* What was found under the lock stays so: an install or a creation has a free id ...
IdStaysFree ==
    \A m \in Manager :
        at[m] \in {"resolve", "fetch", "place", "row", "entry"}
            /\ op[m] \in {"install", "create"} => entry = Nothing

\* ... an update replaces another version of the registry, with files of its own ...
UpdateReplaces ==
    \A m \in Manager :
        /\ at[m] \in {"fetch", "place", "row"} /\ op[m] \in {"install", "update"}
               => target[m] \in Version
        /\ op[m] = "update" =>
            /\ at[m] \in {"resolve", "fetch", "place", "row", "entry"}
                   => row.source = "registry"
            /\ at[m] \in {"fetch", "place"} => row.version # target[m]
            /\ at[m] = "entry" => row.version = target[m]

\* ... and until its clean-up no other version of the registry is recorded ...
PreviousUnused ==
    \A m \in Manager : at[m] \in {"look", "drop"} =>
        /\ \A d \in {row, entry} : d.source = "registry" => d.version = target[m]
        /\ at[m] = "drop" => previous[m] # target[m]

\* ... and a removal takes the files of an agent that is no longer offered.
RemovedFirst ==
    \A m \in Manager :
        /\ at[m] = "retire" => row.source # "none"
        /\ at[m] = "retire_entry" => row.retired
        /\ at[m] = "delete_entry" => row = Nothing
        /\ at[m] = "files" => ~usable

PlaceInv == OpsPlace /\ LockHeld /\ OneRegistered
KeptInv ==
    /\ CatalogFollows /\ IdStaysFree /\ UpdateReplaces /\ PreviousUnused /\ RemovedFirst
    /\ OfferedIsOnDisk
AgInv == AgTypeOK /\ PlaceInv /\ KeptInv

\* The types, in parts: what the store, the catalog and the disk have ...
RecordsTypeOK ==
    /\ row \in Definition /\ entry \in Definition /\ usable \in BOOLEAN
    /\ files \subseteq Version /\ published \in Version /\ cached \in Version \cup {0}

\* ... the requests ...
RequestsTypeOK ==
    /\ mutex \in Manager \cup {None} /\ registered \subseteq Manager
    /\ at \in [Manager -> {"idle", "queued", "resolve", "fetch", "place", "row", "entry",
                           "look", "drop", "settle", "report", "retire", "retire_entry",
                           "delete", "delete_entry", "files"}]
    /\ op \in [Manager -> {"install", "update", "create", "edit", "remove"}]
    /\ target \in [Manager -> Version \cup {0}] /\ previous \in [Manager -> Version \cup {0}]

\* ... a chat and its session, and the bounds.
ChatsTypeOK ==
    /\ named \in BOOLEAN /\ asking \in BOOLEAN
    /\ mapped \in Session \cup {None} /\ built \in [Session -> Definition]
    /\ proc \in [Session -> {"stopped", "starting", "running"}]
    /\ caller \in {"idle", "build", "start", "spawn"} /\ held \in Session \cup {None}
    /\ building \in Definition

BoundsTypeOK == publications \in 0..MaxPublish /\ restarts \in 0..MaxRestart

\* A step of a request changes no chat, and takes at most the session away.
LEMMA TypedStep ==
    ASSUME AgTypeOK, RequestsTypeOK', mapped' \in Session \cup {None}, cached' \in Version \cup {0},
           UNCHANGED <<row, entry, usable, files, published, named, asking, built, proc, caller,
                       held, building, publications, restarts>>
    PROVE  AgTypeOK'
BY DEF AgTypeOK, RequestsTypeOK

\* A definition has its fields; the one without a source is Nothing.
LEMMA Definitions ==
    ASSUME NEW d \in Definition
    PROVE  /\ d.source \in Source \cup {"none"} /\ d.retired \in BOOLEAN
           /\ d.source = "none" => d = Nothing
           /\ d.source # "none" => d.version \in Version
                /\ d = [source |-> d.source, version |-> d.version, retired |-> d.retired]
<1>1. CASE d = Nothing
  BY <1>1 DEF Nothing
<1>2. CASE d \in [source : Source, version : Version, retired : BOOLEAN]
  BY <1>2 DEF Source
<1>. QED BY <1>1, <1>2 DEF Definition

\* What a request does to its own place and numbers.
Moves(m) ==
    \A n \in Manager \ {m} :
        /\ at'[n] = at[n] /\ op'[n] = op[n]
        /\ target'[n] = target[n] /\ previous'[n] = previous[n]
        /\ mutex = n => mutex' = n
        /\ registered = {n} => registered' = {n}

\* A request goes where its operation goes, and holds the lock there.
Lands(m) ==
    /\ at'[m] \in {"resolve", "fetch", "place"} => op'[m] \in {"install", "update"}
    /\ at'[m] \in {"row", "entry"} => op'[m] # "remove"
    /\ at'[m] \in {"look", "drop"} => op'[m] = "update"
    /\ at'[m] \in UnderLock => mutex' = m
    /\ at'[m] # "idle" /\ op'[m] \in {"install", "update"} => registered' = {m}

\* A step of one request keeps the places of all.
LEMMA PlaceStep ==
    ASSUME PlaceInv, NEW m \in Manager, Moves(m), Lands(m)
    PROVE  PlaceInv'
BY DEF PlaceInv, OpsPlace, LockHeld, OneRegistered, Moves, Lands

\* The end of a request.
LEMMA OverMoves ==
    ASSUME AgTypeOK, NEW m \in Manager, Over(m)
    PROVE  Moves(m) /\ Lands(m) /\ RequestsTypeOK' /\ at'[m] = "idle"
<1>1. RequestsTypeOK' /\ at'[m] = "idle"
  BY DEF Over, Step, AgTypeOK, RequestsTypeOK
<1>2. Moves(m)
  BY DEF Over, Step, AgTypeOK, Moves
<1>3. Lands(m)
  BY <1>1 DEF Lands, UnderLock
<1>. QED BY <1>1, <1>2, <1>3

\* Nobody else is under the lock.
LEMMA AloneUnderLock ==
    ASSUME PlaceInv, NEW m \in Manager, at[m] \in UnderLock
    PROVE  \A n \in Manager \ {m} : at[n] \notin UnderLock
BY DEF PlaceInv, LockHeld

-----------------------------------------------------------------------------
(* Steps of a request that leave the store and the catalog alone.          *)

\* Where a request may go in such a step.
Agrees(m) ==
    /\ at[m] \notin RowAhead
    /\ at'[m] \notin RowAhead
    /\ at'[m] \in {"resolve", "fetch", "place", "row"} /\ op'[m] \in {"install", "create"}
           => entry = Nothing
    /\ at'[m] \in {"fetch", "place", "row"} /\ op'[m] \in {"install", "update"}
           => target'[m] \in Version
    /\ op'[m] = "update" =>
         /\ at'[m] \in {"resolve", "fetch", "place", "row"} => row.source = "registry"
         /\ at'[m] \in {"fetch", "place"} => row.version # target'[m]
    /\ at'[m] \in {"look", "drop"} =>
         /\ at[m] \in {"look", "drop"} /\ target'[m] = target[m]
         /\ at'[m] = "drop" => previous'[m] # target'[m]
    /\ at'[m] = "retire" => row.source # "none"
    /\ at'[m] # "files"

\* Such a step keeps what was found under the lock.
LEMMA KeptStep ==
    ASSUME KeptInv, NEW m \in Manager, Moves(m), Agrees(m), UNCHANGED <<row, entry, usable>>,
           OfferedIsOnDisk'
    PROVE  KeptInv'
<1>1. CatalogFollows'
  BY DEF KeptInv, CatalogFollows, Moves, Agrees, RowAhead
<1>2. IdStaysFree'
  BY DEF KeptInv, IdStaysFree, Moves, Agrees, RowAhead
<1>3. UpdateReplaces'
  BY DEF KeptInv, UpdateReplaces, Moves, Agrees, RowAhead
<1>4. PreviousUnused'
  BY DEF KeptInv, PreviousUnused, Moves, Agrees
<1>5. RemovedFirst'
  BY DEF KeptInv, RemovedFirst, Moves, Agrees, RowAhead
<1>. QED BY <1>1, <1>2, <1>3, <1>4, <1>5 DEF KeptInv

\* A request that ends without an effect.
LEMMA OverKeeps ==
    ASSUME AgInv, NEW m \in Manager, Over(m), at[m] \notin RowAhead,
           UNCHANGED <<row, entry, usable, files, published, chats, sessions, bounds>>,
           cached' \in Version \cup {0}
    PROVE  AgInv'
<1>1. Moves(m) /\ Lands(m) /\ RequestsTypeOK' /\ at'[m] = "idle"
  BY OverMoves DEF AgInv
<1>2. Agrees(m)
  BY <1>1 DEF Agrees, RowAhead
<1>3. AgTypeOK'
  BY <1>1, TypedStep DEF AgInv, AgTypeOK, chats, sessions, bounds
<1>4. OfferedIsOnDisk'
  BY DEF AgInv, KeptInv, OfferedIsOnDisk, OnDisk
<1>. QED BY <1>1, <1>2, <1>3, <1>4, PlaceStep, KeptStep DEF AgInv

\* A step of a request that goes on.
LEMMA QuietKeeps ==
    ASSUME AgInv, NEW m \in Manager,
           Moves(m), Lands(m), Agrees(m), RequestsTypeOK', mapped' \in Session \cup {None},
           UNCHANGED <<row, entry, usable, files, published, chats, built, proc, caller, held,
                       building, bounds>>,
           cached' \in Version \cup {0}
    PROVE  AgInv'
<1>1. AgTypeOK'
  BY TypedStep DEF AgInv, chats, bounds
<1>2. OfferedIsOnDisk'
  BY DEF AgInv, KeptInv, OfferedIsOnDisk, OnDisk
<1>. QED BY <1>1, <1>2, PlaceStep, KeptStep DEF AgInv

\* Request, Locks.
LEMMA AskKeeps ==
    ASSUME AgInv, NEW m \in Manager,
           \/ \E o \in {"install", "update", "create", "edit", "remove"} : Request(m, o)
           \/ Locks(m)
    PROVE  AgInv'
<1>1. ASSUME NEW o \in {"install", "update", "create", "edit", "remove"}, Request(m, o)
      PROVE  AgInv'
  <2>1. RequestsTypeOK'
    BY <1>1 DEF Request, Step, AgInv, AgTypeOK, RequestsTypeOK
  <2>2. at[m] = "idle" /\ at'[m] = "queued" /\ op'[m] = o
    BY <1>1 DEF Request, Step, AgInv, AgTypeOK
  <2>3. Moves(m)
    BY <1>1 DEF Request, Register, Step, AgInv, AgTypeOK, Moves
  <2>4. Lands(m)
    BY <1>1, <2>2 DEF Request, Register, Lands, UnderLock
  <2>5. Agrees(m)
    BY <2>2 DEF Agrees, RowAhead
  <2>. QED BY <1>1, <2>1, <2>3, <2>4, <2>5, QuietKeeps
           DEF Request, AgInv, AgTypeOK, durable, catalog, sessions
<1>2. CASE Locks(m) /\ Admitted(m)
  <2>1. RequestsTypeOK'
    <3>1. FirstStep(m) \in {"resolve", "row", "retire", "delete"}
      BY DEF FirstStep
    <3>2. row.version \in Version \cup {0}
      BY Definitions DEF AgInv, AgTypeOK, Nothing
    <3>. QED BY <1>2, <3>1, <3>2 DEF Locks, Step, AgInv, AgTypeOK, RequestsTypeOK
  <2>2. /\ at[m] = "queued" /\ at'[m] = FirstStep(m) /\ op'[m] = op[m] /\ mutex' = m
        /\ registered' = registered
    BY <1>2 DEF Locks, Step, AgInv, AgTypeOK
  <2>3. Moves(m)
    BY <1>2, AgentsAssumption DEF Locks, Step, AgInv, AgTypeOK, Moves
  <2>4. Lands(m)
    BY <2>2 DEF Lands, UnderLock, FirstStep, AgInv, AgTypeOK, PlaceInv, OneRegistered
  <2>5. Agrees(m)
    BY <2>2, <1>2, Definitions
       DEF Agrees, RowAhead, FirstStep, Admitted, IdIsFree, AgInv, AgTypeOK
  <2>. QED BY <1>2, <2>1, <2>3, <2>4, <2>5, QuietKeeps
           DEF Locks, AgInv, AgTypeOK, durable, catalog, sessions
<1>3. CASE Locks(m) /\ ~Admitted(m)
  BY <1>3, OverKeeps DEF Locks, RowAhead, AgInv, AgTypeOK, durable, catalog
<1>. QED BY <1>1, <1>2, <1>3

\* Resolve, Fails, Report.
LEMMA ResolveKeeps ==
    ASSUME AgInv, NEW m \in Manager, Resolve(m) \/ Fails(m) \/ Report(m)
    PROVE  AgInv'
<1>1. CASE Over(m)
  BY <1>1, OverKeeps DEF Resolve, Fails, Report, RowAhead, AgInv, AgTypeOK, durable, catalog
<1>2. CASE Resolve(m) /\ ~Over(m)
  <2>1. PICK v \in Version :
            /\ cached' \in {published, cached}
            /\ ~(op[m] = "update" /\ v = row.version)
            /\ Step(m, "fetch") /\ target' = [target EXCEPT ![m] = v]
            /\ UNCHANGED <<mutex, registered, op, previous>>
    BY <1>2 DEF Resolve
  <2>2. RequestsTypeOK'
    BY <2>1 DEF Step, AgInv, AgTypeOK, RequestsTypeOK
  <2>3. at[m] = "resolve" /\ at'[m] = "fetch" /\ target'[m] = v
    BY <1>2, <2>1 DEF Resolve, Step, AgInv, AgTypeOK
  <2>4. Moves(m)
    BY <2>1 DEF Step, AgInv, AgTypeOK, Moves
  <2>5. Lands(m)
    BY <2>1, <2>3 DEF Lands, UnderLock, AgInv, PlaceInv, OpsPlace, LockHeld, OneRegistered
  <2>6. Agrees(m)
    BY <2>1, <2>3 DEF Agrees, RowAhead, AgInv, KeptInv, IdStaysFree, UpdateReplaces
  <2>. QED BY <1>2, <2>1, <2>2, <2>4, <2>5, <2>6, QuietKeeps
           DEF Resolve, AgInv, AgTypeOK, catalog, sessions
<1>. QED BY <1>1, <1>2 DEF Fails, Report

\* Look, Settle: what the service does after the lock.
LEMMA AfterwardsKeeps ==
    ASSUME AgInv, NEW m \in Manager, Look(m) \/ Settle(m)
    PROVE  AgInv'
<1>1. /\ RequestsTypeOK' /\ Moves(m)
      /\ target'[m] = target[m] /\ previous'[m] = previous[m] /\ op'[m] = op[m]
      /\ registered' = registered /\ mutex' = mutex
  BY DEF Look, Settle, Step, AgInv, AgTypeOK, RequestsTypeOK, Moves
<1>2. CASE Look(m)
  <2>1. at[m] = "look" /\ at'[m] = IF Live \/ previous[m] = target[m] THEN "settle" ELSE "drop"
    BY <1>2 DEF Look, Step, AgInv, AgTypeOK
  <2>2. Lands(m)
    BY <1>1, <2>1 DEF Lands, UnderLock, AgInv, PlaceInv, OpsPlace, OneRegistered
  <2>3. Agrees(m)
    BY <1>1, <2>1 DEF Agrees, RowAhead
  <2>. QED BY <1>1, <1>2, <2>2, <2>3, QuietKeeps
           DEF Look, AgInv, AgTypeOK, durable, catalog, sessions
<1>3. CASE Settle(m)
  <2>1. at[m] = "settle" /\ at'[m] = "report"
    BY <1>3 DEF Settle, Step, AgInv, AgTypeOK
  <2>2. Lands(m)
    BY <1>1, <2>1 DEF Lands, UnderLock, AgInv, PlaceInv, OneRegistered
  <2>3. Agrees(m)
    BY <2>1 DEF Agrees, RowAhead
  <2>4. mapped' \in Session \cup {None}
    BY <1>3 DEF Settle, AgInv, AgTypeOK
  <2>. QED BY <1>1, <1>3, <2>2, <2>3, <2>4, QuietKeeps
           DEF Settle, AgInv, AgTypeOK, durable, catalog, chats
<1>. QED BY <1>2, <1>3

-----------------------------------------------------------------------------
(* Steps that change the files.                                            *)

\* Under the lock, with the row written to the catalog, both are the same.
LEMMA BothUnderLock ==
    ASSUME AgInv, NEW m \in Manager, at[m] \in UnderLock \ RowAhead
    PROVE  entry = row
<1>1. \A n \in Manager : at[n] \notin RowAhead
  BY AloneUnderLock DEF AgInv, UnderLock, RowAhead
<1>. QED BY <1>1 DEF AgInv, KeptInv, CatalogFollows

\* Clear, Place, DropPrevious and RemoveFiles, but for what they do to the disk.
LEMMA FilesStep ==
    ASSUME AgInv, NEW m \in Manager, files' \subseteq Version, OfferedIsOnDisk',
           Moves(m), Lands(m), Agrees(m), RequestsTypeOK',
           UNCHANGED <<row, entry, usable, cached, published, chats, sessions, bounds>>
    PROVE  AgInv'
<1>1. AgTypeOK'
  BY DEF AgInv, AgTypeOK, RequestsTypeOK, chats, sessions, bounds
<1>. QED BY <1>1, PlaceStep, KeptStep DEF AgInv

\* extract_into_place replaces the directory of a version nobody is offered.
LEMMA PlaceKeeps ==
    ASSUME AgInv, NEW m \in Manager, Clear(m) \/ Place(m)
    PROVE  AgInv'
<1>1. /\ RequestsTypeOK' /\ Moves(m)
      /\ op'[m] = op[m] /\ target'[m] = target[m] /\ registered' = registered /\ mutex' = mutex
  BY DEF Clear, Place, Step, AgInv, AgTypeOK, RequestsTypeOK, Moves
<1>2. op[m] \in {"install", "update"} /\ target[m] \in Version /\ at[m] \in {"fetch", "place"}
  BY DEF Clear, Place, AgInv, PlaceInv, OpsPlace, KeptInv, UpdateReplaces
<1>3. at'[m] \in {"place", "row"} /\ (at'[m] = "place" => at[m] = "fetch")
  BY DEF Clear, Place, Step, AgInv, AgTypeOK
<1>4. Lands(m)
  BY <1>1, <1>2, <1>3 DEF Lands, UnderLock, AgInv, PlaceInv, LockHeld, OneRegistered
<1>5. Agrees(m)
  BY <1>1, <1>2, <1>3 DEF Agrees, RowAhead, AgInv, KeptInv, IdStaysFree, UpdateReplaces
<1>6. CASE Clear(m)
  <2>1. entry = row
    BY <1>6, BothUnderLock DEF Clear, UnderLock, RowAhead
  <2>2. entry.source = "registry" => entry.version # target[m]
    BY <1>2, <1>6, <2>1 DEF Clear, AgInv, KeptInv, IdStaysFree, UpdateReplaces, Nothing
  <2>3. OfferedIsOnDisk'
    BY <1>6, <2>2, Definitions
       DEF Clear, catalog, AgInv, AgTypeOK, KeptInv, OfferedIsOnDisk, OnDisk
  <2>4. files' \subseteq Version
    BY <1>6 DEF Clear, AgInv, AgTypeOK
  <2>. QED BY <1>1, <1>4, <1>5, <1>6, <2>3, <2>4, FilesStep DEF Clear, catalog
<1>7. CASE Place(m)
  <2>1. OfferedIsOnDisk' /\ files' \subseteq Version
    BY <1>2, <1>7 DEF Place, catalog, AgInv, AgTypeOK, KeptInv, OfferedIsOnDisk, OnDisk
  <2>. QED BY <1>1, <1>4, <1>5, <1>7, <2>1, FilesStep DEF Place, catalog
<1>. QED BY <1>6, <1>7

\* The previous files go outside the lock; a removal takes its files under it.
LEMMA DropKeeps ==
    ASSUME AgInv, NEW m \in Manager, DropPrevious(m) \/ RemoveFiles(m)
    PROVE  AgInv'
<1>1. /\ RequestsTypeOK' /\ op'[m] = op[m] /\ registered' = registered
      /\ at[m] \in {"drop", "files"} /\ at'[m] = "settle"
  BY DEF DropPrevious, RemoveFiles, Step, AgInv, AgTypeOK, RequestsTypeOK
<1>2. Moves(m)
  <2>1. CASE DropPrevious(m)
    BY <2>1 DEF DropPrevious, Step, AgInv, AgTypeOK, Moves
  <2>2. CASE RemoveFiles(m)
    <3>1. mutex = m
      BY <2>2 DEF RemoveFiles, UnderLock, AgInv, PlaceInv, LockHeld
    <3>. QED BY <2>2, <3>1 DEF RemoveFiles, Step, AgInv, AgTypeOK, Moves
  <2>. QED BY <2>1, <2>2
<1>3. Lands(m)
  BY <1>1 DEF Lands, UnderLock, AgInv, PlaceInv, OneRegistered
<1>4. Agrees(m)
  BY <1>1 DEF Agrees, RowAhead
<1>5. CASE DropPrevious(m)
  <2>1. usable => OnDisk(entry, files \ {previous[m]})
    BY <1>5 DEF DropPrevious, AgInv, KeptInv, PreviousUnused, OfferedIsOnDisk, OnDisk
  <2>2. OfferedIsOnDisk' /\ files' \subseteq Version
    BY <1>5, <2>1 DEF DropPrevious, catalog, AgInv, AgTypeOK, OfferedIsOnDisk, OnDisk
  <2>. QED BY <1>1, <1>2, <1>3, <1>4, <1>5, <2>2, FilesStep DEF DropPrevious, catalog
<1>6. CASE RemoveFiles(m)
  <2>1. OfferedIsOnDisk' /\ files' \subseteq Version
    BY <1>6 DEF RemoveFiles, catalog, AgInv, AgTypeOK, KeptInv, RemovedFirst, OfferedIsOnDisk
  <2>. QED BY <1>1, <1>2, <1>3, <1>4, <1>6, <2>1, FilesStep DEF RemoveFiles, catalog
<1>. QED BY <1>5, <1>6

-----------------------------------------------------------------------------
(* Steps that write the row or the catalog.                                *)

\* Such a step is under the lock: no other request is.
LEMMA WritesStep ==
    ASSUME AgInv, NEW m \in Manager, at[m] \in UnderLock,
           Moves(m), Lands(m), RequestsTypeOK', row' \in Definition, entry' \in Definition,
           usable' \in BOOLEAN, CatalogFollows', OfferedIsOnDisk',
           \A n \in Manager \ {m} : at[n] \in {"look", "drop"} =>
               \A d \in {row', entry'} : d.source = "registry" => d.version = target[n],
           at'[m] = "entry" =>
               /\ op'[m] \in {"install", "create"} => entry' = Nothing
               /\ op'[m] = "update" => row'.source = "registry" /\ row'.version = target'[m],
           at'[m] = "retire_entry" => row'.retired,
           at'[m] = "delete_entry" => row' = Nothing,
           at'[m] = "files" => ~usable',
           at'[m] = "look" =>
               \A d \in {row', entry'} : d.source = "registry" => d.version = target'[m],
           at'[m] \in RowAhead \cup {"files", "look", "settle", "report"},
           UNCHANGED <<files, cached, published, chats, sessions, bounds>>
    PROVE  AgInv'
<1>1. AgTypeOK'
  BY DEF AgInv, AgTypeOK, RequestsTypeOK, chats, sessions, bounds
<1>2. \A n \in Manager \ {m} : at'[n] = at[n] /\ at'[n] \notin UnderLock
  BY AloneUnderLock DEF AgInv, Moves
<1>3. IdStaysFree'
  BY <1>2 DEF IdStaysFree, UnderLock, RowAhead
<1>4. UpdateReplaces'
  BY <1>2 DEF UpdateReplaces, UnderLock, RowAhead
<1>5. PreviousUnused'
  <2>. SUFFICES ASSUME NEW n \in Manager, at'[n] \in {"look", "drop"}
                PROVE  /\ \A d \in {row', entry'} :
                              d.source = "registry" => d.version = target'[n]
                       /\ at'[n] = "drop" => previous'[n] # target'[n]
    BY DEF PreviousUnused
  <2>1. CASE n = m
    BY <2>1 DEF RowAhead
  <2>2. CASE n # m
    BY <1>2, <2>2 DEF AgInv, KeptInv, PreviousUnused, Moves
  <2>. QED BY <2>1, <2>2
<1>6. RemovedFirst'
  BY <1>2 DEF RemovedFirst, UnderLock, RowAhead
<1>. QED BY <1>1, <1>3, <1>4, <1>5, <1>6, PlaceStep DEF AgInv, KeptInv

\* The operation that is registered is the only one that writes a version.
LEMMA WriterAlone ==
    ASSUME AgInv, NEW m \in Manager, NEW n \in Manager \ {m}, at[n] \in {"look", "drop"},
           at[m] # "idle"
    PROVE  op[m] \notin {"install", "update"}
BY DEF AgInv, PlaceInv, OpsPlace, OneRegistered

\* The row is written before the catalog.
LEMMA WriteRowKeeps ==
    ASSUME AgInv, NEW m \in Manager, WriteRow(m)
    PROVE  AgInv'
<1>1. /\ RequestsTypeOK' /\ Moves(m) /\ at[m] = "row" /\ at'[m] = "entry"
      /\ op'[m] = op[m] /\ target'[m] = target[m] /\ registered' = registered /\ mutex' = mutex
  BY DEF WriteRow, Step, AgInv, AgTypeOK, RequestsTypeOK, Moves
<1>2. Lands(m) /\ op[m] # "remove"
  BY <1>1 DEF Lands, UnderLock, AgInv, PlaceInv, OpsPlace, LockHeld, OneRegistered
<1>3. entry' = entry /\ usable' = usable /\ files' = files /\ row' \in NewRow(m)
  BY DEF WriteRow, catalog
<1>4. OfferedIsOnDisk' /\ CatalogFollows'
  BY <1>1, <1>3 DEF AgInv, KeptInv, OfferedIsOnDisk, OnDisk, CatalogFollows, RowAhead
<1>5. CASE op[m] = "update"
  <2>1. row.source = "registry" /\ target[m] \in Version
    BY <1>1, <1>5 DEF AgInv, KeptInv, UpdateReplaces
  <2>2. row' = [row EXCEPT !.version = target[m]]
    BY <1>3, <1>5 DEF NewRow, UpdateRow
  <2>3. row = [source |-> row.source, version |-> row.version, retired |-> row.retired]
        /\ row.retired \in BOOLEAN
    BY <2>1, Definitions DEF AgInv, AgTypeOK
  <2>4. PICK r \in BOOLEAN : row' = [source |-> "registry", version |-> target[m], retired |-> r]
    <3>1. PICK s, v, r : row = [source |-> s, version |-> v, retired |-> r]
      BY <2>3
    <3>2. s = "registry" /\ r \in BOOLEAN
      BY <2>1, <2>3, <3>1
    <3>3. row' = [source |-> "registry", version |-> target[m], retired |-> r]
      BY <2>2, <3>1, <3>2
    <3>. QED BY <3>2, <3>3
  <2>5. row' \in Definition /\ row'.source = "registry" /\ row'.version = target[m]
    BY <2>1, <2>4 DEF Definition, Source
  <2>6. ~\E n \in Manager \ {m} : at[n] \in {"look", "drop"}
    BY <1>1, <1>5, WriterAlone
  <2>. QED BY <1>1, <1>2, <1>3, <1>4, <1>5, <2>5, <2>6, WritesStep
           DEF WriteRow, AgInv, AgTypeOK, UnderLock, RowAhead
<1>6. CASE op[m] # "update"
  <2>1. PICK v \in Version :
            row' = [source |-> IF op[m] = "install" THEN "registry" ELSE "custom",
                    version |-> v, retired |-> FALSE]
    <3>1. op[m] = "install" => target[m] \in Version
      BY <1>1 DEF AgInv, KeptInv, UpdateReplaces
    <3>. QED BY <1>3, <1>6, <3>1 DEF NewRow, InstallRow, CustomRow
  <2>2. row' \in Definition /\ (op[m] # "install" => row'.source = "custom")
    BY <2>1 DEF Definition, Source
  <2>3. \A n \in Manager \ {m} : at[n] \in {"look", "drop"} => row'.source # "registry"
    BY <1>1, <2>2, WriterAlone
  <2>4. \A n \in Manager \ {m} : at[n] \in {"look", "drop"} =>
            \A d \in {row', entry'} : d.source = "registry" => d.version = target[n]
    BY <1>3, <2>3 DEF AgInv, KeptInv, PreviousUnused
  <2>5. op[m] \in {"install", "create"} => entry' = Nothing
    BY <1>1, <1>3 DEF AgInv, KeptInv, IdStaysFree
  <2>. QED BY <1>1, <1>2, <1>3, <1>4, <1>6, <2>2, <2>4, <2>5, WritesStep
           DEF WriteRow, AgInv, AgTypeOK, UnderLock, RowAhead
<1>. QED BY <1>5, <1>6

\* The catalog follows: what it offers has been probed in this step.
LEMMA WriteEntryKeeps ==
    ASSUME AgInv, NEW m \in Manager, WriteEntry(m)
    PROVE  AgInv'
<1>1. /\ at[m] = "entry" /\ op[m] # "remove" /\ mutex = m
      /\ op[m] \in {"install", "create"} => entry = Nothing
      /\ op[m] = "update" => row.source = "registry" /\ row.version = target[m]
  BY DEF WriteEntry, UnderLock, AgInv, PlaceInv, OpsPlace, LockHeld, KeptInv, IdStaysFree,
         UpdateReplaces
<1>2. row' = row /\ entry' = row /\ usable' = Usable(row, files) /\ mutex' = None
  BY <1>1 DEF WriteEntry, Projected, Nothing
<1>3. /\ at'[m] \in {"look", "settle", "report"} /\ (at'[m] = "look" => op[m] = "update")
      /\ op'[m] = op[m] /\ target'[m] = target[m] /\ registered' = registered
  BY DEF WriteEntry, Step, AgInv, AgTypeOK
<1>4. RequestsTypeOK'
  BY <1>2 DEF WriteEntry, Step, AgInv, AgTypeOK, RequestsTypeOK
<1>5. Moves(m)
  BY <1>1 DEF WriteEntry, Step, AgInv, AgTypeOK, Moves
<1>6. Lands(m)
  BY <1>1, <1>3 DEF Lands, UnderLock, AgInv, PlaceInv, OneRegistered
<1>7. row' \in Definition /\ entry' \in Definition /\ usable' \in BOOLEAN
  BY <1>2 DEF AgInv, AgTypeOK, Usable, OnDisk
<1>8. CatalogFollows'
  BY <1>2 DEF CatalogFollows
<1>9. OfferedIsOnDisk'
  BY <1>2 DEF WriteEntry, OfferedIsOnDisk, Usable, OnDisk
<1>10. \A n \in Manager \ {m} : at[n] \in {"look", "drop"} =>
           \A d \in {row', entry'} : d.source = "registry" => d.version = target[n]
  BY <1>2 DEF AgInv, KeptInv, PreviousUnused
<1>. QED BY <1>1, <1>2, <1>3, <1>4, <1>5, <1>6, <1>7, <1>8, <1>9, <1>10, WritesStep
         DEF WriteEntry, UnderLock, RowAhead

\* AgentManager::remove, up to the files.
LEMMA RemoveKeeps ==
    ASSUME AgInv, NEW m \in Manager, Retire(m) \/ RetireEntry(m) \/ Delete(m) \/ DeleteEntry(m)
    PROVE  AgInv'
<1>1. /\ RequestsTypeOK' /\ Moves(m)
      /\ at[m] \in {"retire", "retire_entry", "delete", "delete_entry"}
      /\ at'[m] \in {"retire_entry", "delete_entry", "files"}
      /\ op'[m] = op[m] /\ target'[m] = target[m] /\ registered' = registered /\ mutex' = mutex
  BY DEF Retire, RetireEntry, Delete, DeleteEntry, Step, AgInv, AgTypeOK, RequestsTypeOK, Moves
<1>2. Lands(m)
  BY <1>1 DEF Lands, UnderLock, AgInv, PlaceInv, LockHeld, OneRegistered
<1>3. UNCHANGED <<files, cached, published, chats, sessions, bounds>>
  BY DEF Retire, RetireEntry, Delete, DeleteEntry, durable
<1>4. CASE Retire(m)
  <2>1. row.source # "none" /\ at'[m] = "retire_entry" /\ row' = [row EXCEPT !.retired = TRUE]
        /\ entry' = entry /\ usable' = usable
    BY <1>4 DEF Retire, Step, catalog, AgInv, AgTypeOK, KeptInv, RemovedFirst
  <2>2. row' = [source |-> row.source, version |-> row.version, retired |-> TRUE]
        /\ row.source \in Source /\ row.version \in Version
    <3>1. /\ row = [source |-> row.source, version |-> row.version, retired |-> row.retired]
          /\ row.source \in Source /\ row.version \in Version
      BY <2>1, Definitions DEF AgInv, AgTypeOK
    <3>2. PICK s, v, r : row = [source |-> s, version |-> v, retired |-> r]
      BY <3>1
    <3>. QED BY <2>1, <3>1, <3>2
  <2>3. /\ row' \in Definition /\ row'.source = row.source
        /\ row'.version = row.version /\ row'.retired
    BY <2>2 DEF Definition
  <2>4. OfferedIsOnDisk' /\ CatalogFollows'
    BY <1>3, <2>1 DEF AgInv, KeptInv, OfferedIsOnDisk, OnDisk, CatalogFollows, RowAhead
  <2>5. \A n \in Manager \ {m} : at[n] \in {"look", "drop"} =>
            \A d \in {row', entry'} : d.source = "registry" => d.version = target[n]
    BY <2>1, <2>3 DEF AgInv, KeptInv, PreviousUnused
  <2>. QED BY <1>1, <1>2, <1>3, <2>1, <2>3, <2>4, <2>5, WritesStep
           DEF AgInv, AgTypeOK, UnderLock, RowAhead
<1>5. CASE RetireEntry(m)
  <2>1. /\ row.retired /\ at'[m] = "files" /\ row' = row
        /\ entry' = row /\ usable' = Usable(row, files)
    BY <1>5 DEF RetireEntry, Projected, Step, durable, AgInv, AgTypeOK, KeptInv, RemovedFirst
  <2>2. ~usable' /\ usable' \in BOOLEAN
    BY <2>1 DEF Usable
  <2>3. OfferedIsOnDisk' /\ CatalogFollows'
    BY <2>1, <2>2 DEF OfferedIsOnDisk, CatalogFollows
  <2>4. \A n \in Manager \ {m} : at[n] \in {"look", "drop"} =>
            \A d \in {row', entry'} : d.source = "registry" => d.version = target[n]
    BY <2>1 DEF AgInv, KeptInv, PreviousUnused
  <2>. QED BY <1>1, <1>2, <1>3, <2>1, <2>2, <2>3, <2>4, WritesStep
           DEF AgInv, AgTypeOK, UnderLock, RowAhead
<1>6. CASE Delete(m)
  <2>1. at'[m] = "delete_entry" /\ row' = Nothing /\ entry' = entry /\ usable' = usable
    BY <1>6 DEF Delete, Step, catalog, AgInv, AgTypeOK
  <2>2. row' \in Definition /\ row'.source # "registry"
    BY <2>1 DEF Definition, Nothing
  <2>3. OfferedIsOnDisk' /\ CatalogFollows'
    BY <1>3, <2>1 DEF AgInv, KeptInv, OfferedIsOnDisk, OnDisk, CatalogFollows, RowAhead
  <2>4. \A n \in Manager \ {m} : at[n] \in {"look", "drop"} =>
            \A d \in {row', entry'} : d.source = "registry" => d.version = target[n]
    BY <2>1, <2>2 DEF AgInv, KeptInv, PreviousUnused
  <2>. QED BY <1>1, <1>2, <1>3, <2>1, <2>2, <2>3, <2>4, WritesStep
           DEF AgInv, AgTypeOK, UnderLock, RowAhead
<1>7. CASE DeleteEntry(m)
  <2>1. row = Nothing /\ at'[m] = "files" /\ entry' = Nothing /\ usable' = FALSE /\ row' = row
    BY <1>7 DEF DeleteEntry, Step, durable, AgInv, AgTypeOK, KeptInv, RemovedFirst
  <2>2. OfferedIsOnDisk' /\ CatalogFollows'
    BY <2>1 DEF OfferedIsOnDisk, CatalogFollows
  <2>3. \A n \in Manager \ {m} : at[n] \in {"look", "drop"} =>
            \A d \in {row', entry'} : d.source = "registry" => d.version = target[n]
    BY <2>1 DEF Nothing
  <2>4. row' \in Definition /\ entry' \in Definition
    BY <2>1 DEF Definition
  <2>. QED BY <1>1, <1>2, <1>3, <2>1, <2>2, <2>3, <2>4, WritesStep
           DEF AgInv, AgTypeOK, UnderLock, RowAhead
<1>. QED BY <1>4, <1>5, <1>6, <1>7

-----------------------------------------------------------------------------
(* The registry, the chats and their session, and the crash.               *)

\* Such a step leaves the rows, the catalog, the disk and the requests.
LEMMA ElsewhereStep ==
    ASSUME AgInv, UNCHANGED <<row, files, catalog, requests>>,
           published' \in Version, cached' \in Version \cup {0}, ChatsTypeOK', BoundsTypeOK'
    PROVE  AgInv'
<1>1. AgTypeOK'
  BY DEF AgInv, AgTypeOK, ChatsTypeOK, BoundsTypeOK, catalog, requests
<1>2. PlaceInv'
  BY DEF AgInv, PlaceInv, OpsPlace, LockHeld, OneRegistered, requests
<1>3. KeptInv'
  BY DEF AgInv, KeptInv, CatalogFollows, IdStaysFree, UpdateReplaces, PreviousUnused,
         RemovedFirst, OfferedIsOnDisk, OnDisk, catalog, requests
<1>. QED BY <1>1, <1>2, <1>3 DEF AgInv

\* Publish, Browse.
LEMMA RegistryKeepsAgent ==
    ASSUME AgInv, Publish \/ Browse
    PROVE  AgInv'
<1>1. ChatsTypeOK' /\ UNCHANGED <<row, files, catalog, requests>>
  BY DEF Publish, Browse, durable, chats, sessions, AgInv, AgTypeOK, ChatsTypeOK
<1>2. BoundsTypeOK'
  BY AgentsAssumption DEF Publish, Browse, bounds, AgInv, AgTypeOK, BoundsTypeOK
<1>3. published' \in Version /\ cached' \in Version \cup {0}
  BY DEF Publish, Browse, durable, AgInv, AgTypeOK
<1>. QED BY <1>1, <1>2, <1>3, ElsewhereStep

\* A chat, its session and its process.
LEMMA SessionKeepsAgent ==
    ASSUME AgInv,
           \/ AskForChat \/ InsertChat \/ DeleteChat
           \/ FindSession \/ InsertSession \/ BeginStart \/ Spawn
           \/ \E s \in Session : AgentStops(s)
    PROVE  AgInv'
<1>1. UNCHANGED <<durable, catalog, published, requests, bounds>>
  BY DEF AskForChat, InsertChat, DeleteChat, FindSession, InsertSession, BeginStart, Spawn,
         AgentStops
<1>2. ChatsTypeOK'
  <2>1. CASE AskForChat \/ InsertChat \/ DeleteChat
    BY <2>1 DEF AskForChat, InsertChat, DeleteChat, sessions, AgInv, AgTypeOK, ChatsTypeOK
  <2>2. CASE FindSession \/ BeginStart \/ Spawn
    BY <2>2 DEF FindSession, BeginStart, Spawn, chats, AgInv, AgTypeOK, ChatsTypeOK
  <2>3. CASE InsertSession
    BY <2>3 DEF InsertSession, chats, AgInv, AgTypeOK, ChatsTypeOK, Definition
  <2>4. ASSUME NEW s \in Session, AgentStops(s) PROVE ChatsTypeOK'
    BY <2>4 DEF AgentStops, chats, AgInv, AgTypeOK, ChatsTypeOK
  <2>. QED BY <2>1, <2>2, <2>3, <2>4
<1>3. BoundsTypeOK' /\ published' \in Version /\ cached' \in Version \cup {0}
  BY <1>1 DEF bounds, durable, AgInv, AgTypeOK, BoundsTypeOK
<1>. QED BY <1>1, <1>2, <1>3, ElsewhereStep DEF durable

\* load_persisted: nobody is under way.
LEMMA RestartKeeps ==
    ASSUME AgInv, Restart
    PROVE  AgInv'
<1>1. row' = row /\ entry' = row /\ usable' = Usable(row, files) /\ files' = files
  BY DEF Restart, Projected, durable
<1>2. RecordsTypeOK'
  BY <1>1 DEF Restart, durable, AgInv, AgTypeOK, RecordsTypeOK, Usable, OnDisk
<1>3. RequestsTypeOK' /\ \A m \in Manager : at'[m] = "idle"
  BY DEF Restart, RequestsTypeOK
<1>4. ChatsTypeOK'
  BY DEF Restart, AgInv, AgTypeOK, ChatsTypeOK, Definition
<1>5. BoundsTypeOK'
  BY AgentsAssumption DEF Restart, AgInv, AgTypeOK, BoundsTypeOK
<1>6. OfferedIsOnDisk'
  BY <1>1 DEF OfferedIsOnDisk, Usable, OnDisk
<1>7. AgTypeOK'
  BY <1>2, <1>3, <1>4, <1>5
     DEF AgTypeOK, RecordsTypeOK, RequestsTypeOK, ChatsTypeOK, BoundsTypeOK
<1>8. PlaceInv' /\ KeptInv'
  BY <1>1, <1>3, <1>6
     DEF PlaceInv, OpsPlace, LockHeld, OneRegistered, UnderLock, KeptInv, CatalogFollows,
         IdStaysFree, UpdateReplaces, PreviousUnused, RemovedFirst
<1>. QED BY <1>7, <1>8 DEF AgInv

\* No agent yet.
LEMMA AgentInit == AgInit => AgInv
<1>. SUFFICES ASSUME AgInit PROVE AgInv
  OBVIOUS
<1>1. Nothing \in Definition /\ (CHOOSE v \in Version : TRUE) \in Version
  BY AgentsAssumption DEF Definition
<1>2. RecordsTypeOK
  BY <1>1 DEF AgInit, RecordsTypeOK
<1>3. RequestsTypeOK
  BY DEF AgInit, RequestsTypeOK
<1>4. ChatsTypeOK
  BY <1>1 DEF AgInit, ChatsTypeOK
<1>5. BoundsTypeOK
  <2>1. MaxPublish \in Nat /\ MaxRestart \in Nat
    BY AgentsAssumption
  <2>. QED BY <2>1 DEF AgInit, BoundsTypeOK
<1>6. AgTypeOK
  BY <1>2, <1>3, <1>4, <1>5
     DEF AgTypeOK, RecordsTypeOK, RequestsTypeOK, ChatsTypeOK, BoundsTypeOK
<1>7. PlaceInv /\ KeptInv
  BY DEF AgInit, PlaceInv, OpsPlace, LockHeld, OneRegistered, UnderLock, KeptInv,
         CatalogFollows, IdStaysFree, UpdateReplaces, PreviousUnused, RemovedFirst,
         OfferedIsOnDisk
<1>. QED BY <1>6, <1>7 DEF AgInv

\* Every step keeps the invariant.
LEMMA AgentStep == AgInv /\ [AgNext]_agVars => AgInv'
<1>. SUFFICES ASSUME AgInv, [AgNext]_agVars PROVE AgInv'
  OBVIOUS
<1>1. CASE AgNext
  BY <1>1, AskKeeps, ResolveKeeps, AfterwardsKeeps, PlaceKeeps, DropKeeps, WriteRowKeeps,
     WriteEntryKeeps, RemoveKeeps, RegistryKeepsAgent, SessionKeepsAgent, RestartKeeps
     DEF AgNext
<1>2. CASE UNCHANGED agVars
  BY <1>2, ElsewhereStep
     DEF agVars, durable, chats, sessions, bounds, AgInv, AgTypeOK, ChatsTypeOK, BoundsTypeOK
<1>. QED BY <1>1, <1>2

\* Types hold, one request is under mutation_lock, and what each request found there
\* stays so until it is done with it (agents/manager.rs:557-735,
\* service/agents.rs:142): the inductive invariant.
THEOREM AgentInvHolds == AgSpec => []AgInv
BY AgentInit, AgentStep, PTL DEF AgSpec

\* At every moment of every install, update, edit, removal and crash the catalog
\* offers only what is on disk, and outside a mutation what the store records
\* (agents/manager.rs:557-735).
THEOREM OfferedIsInstalledHolds == AgSpec => []OfferedIsInstalled
<1>1. AgInv => OfferedIsInstalled
  <2>. SUFFICES ASSUME AgInv PROVE CatalogIsStore
    BY DEF AgInv, KeptInv, OfferedIsInstalled
  <2>1. ASSUME mutex = None, NEW m \in Manager PROVE at[m] \notin RowAhead
    BY <2>1, AgentsAssumption DEF AgInv, PlaceInv, LockHeld, UnderLock, RowAhead
  <2>. QED BY <2>1 DEF AgInv, KeptInv, CatalogFollows, CatalogIsStore
<1>. QED BY <1>1, AgentInvHolds, PTL

-----------------------------------------------------------------------------
(* What is known of an agent's authentication.                             *)

AdSpec == AdInit /\ [][AdNext]_adVars

\* Whoever has a committed probe, or has heard of one, has one since it was asked.
SavedIsCommitted ==
    \A a \in Asker : outcome[a] = "committed" \/ heard[a] = "committed" => a \in saved

\* A removal leaves room for the edition that comes back (a bound of the model).
RoomToReturn == present \/ edition <= MaxChange

DiscoveryInv == AdTypeOK /\ SavedIsCommitted /\ RoomToReturn

\* A step that answers nothing "fresh" which is not, and keeps recorded evidence.
EvidenceStep ==
    /\ \A a \in Asker : ask[a] = "answer" /\ ask'[a] = "idle" /\ AnswersFresh(a) => a \in saved
    /\ cache'.row /\ (cache'.methods # cache.methods \/ cache'.stale # cache.stale)
           => cache'.observed = cache.observed

\* The types of the requests.
ProbeTypeOK ==
    /\ turn \in Asker \cup {Nobody}
    /\ ask \in [Asker -> {"idle", "waiting", "connect", "check", "save", "attempted",
                          "ask_agent", "note", "answer"}]
    /\ job \in [Asker -> {"refresh", "authenticate", "logout", "again"}]
    /\ seen \in [Asker -> {0} \cup Editions]
    /\ outcome \in [Asker -> {"none", "committed", "skipped", "failed"}]
    /\ heard \in [Asker -> {"none", "committed", "skipped", "failed"}]
    /\ overtaken \subseteq Asker /\ saved \subseteq Asker

\* What a committed probe proves is known while the request lasts, so an answer
\* needs no more than the invariant.
LEMMA EvidenceOfStep ==
    ASSUME DiscoveryInv, cache' = cache
    PROVE  EvidenceStep
BY DEF DiscoveryInv, SavedIsCommitted, EvidenceStep, AnswersFresh

\* A step of a request that leaves the agent and its row alone.
LEMMA ProbeStep ==
    ASSUME DiscoveryInv, UNCHANGED <<edition, present, cache, change, crashes>>,
           ProbeTypeOK', SavedIsCommitted'
    PROVE  DiscoveryInv' /\ EvidenceStep
BY EvidenceOfStep
   DEF DiscoveryInv, AdTypeOK, ProbeTypeOK, RoomToReturn, Editions, CacheRow, NoRow

\* The end of a request.
LEMMA DoneKeeps ==
    ASSUME DiscoveryInv, NEW a \in Asker, Done(a)
    PROVE  ProbeTypeOK' /\ SavedIsCommitted'
<1>1. ProbeTypeOK'
  BY DEF DiscoveryInv, AdTypeOK, ProbeTypeOK, Done, Go
<1>2. SavedIsCommitted'
  BY DEF DiscoveryInv, AdTypeOK, SavedIsCommitted, Done
<1>. QED BY <1>1, <1>2

\* refresh, probe and what a request does with its outcome.
LEMMA RefreshKeeps ==
    ASSUME DiscoveryInv, NEW a \in Asker,
           \/ AskRefresh(a) \/ TakeTurn(a)
           \/ \E j \in {"authenticate", "logout"} : AskChange(a, j)
           \/ Connect(a) \/ Superseded(a) \/ Passes(a) \/ AgentAgrees(a)
    PROVE  DiscoveryInv' /\ EvidenceStep
<1>1. UNCHANGED <<edition, present, cache, change, crashes>>
  BY DEF AskRefresh, TakeTurn, AskChange, Connect, Superseded, Passes, AgentAgrees
<1>2. ProbeTypeOK'
  BY DEF DiscoveryInv, AdTypeOK, ProbeTypeOK, AskRefresh, TakeTurn, AskChange, Connect,
         Superseded, Passes, AgentAgrees, AfterProbe, Shared, Begins, Go
<1>3. SavedIsCommitted'
  BY DEF DiscoveryInv, AdTypeOK, SavedIsCommitted, AskRefresh, TakeTurn, AskChange, Connect,
         Superseded, Passes, AgentAgrees, Shared, Begins
<1>. QED BY <1>1, <1>2, <1>3, ProbeStep

\* An attempt ends, or its request does.
LEMMA EndsKeep ==
    ASSUME DiscoveryInv, NEW a \in Asker,
           ConnectFails(a) \/ Attempted(a) \/ Answer(a) \/ AgentRefuses(a)
    PROVE  DiscoveryInv' /\ EvidenceStep
<1>1. UNCHANGED <<edition, present, cache, change, crashes>>
  BY DEF ConnectFails, Attempted, Answer, AgentRefuses
<1>2. CASE Done(a)
  BY <1>1, <1>2, DoneKeeps, ProbeStep
<1>3. CASE ConnectFails(a) /\ job[a] = "refresh"
  <2>1. ProbeTypeOK'
    BY <1>3 DEF DiscoveryInv, AdTypeOK, ProbeTypeOK, ConnectFails, Go
  <2>2. SavedIsCommitted'
    BY <1>3 DEF DiscoveryInv, AdTypeOK, SavedIsCommitted, ConnectFails
  <2>. QED BY <1>1, <2>1, <2>2, ProbeStep
<1>4. CASE Attempted(a)
  <2>1. ProbeTypeOK'
    BY <1>4 DEF DiscoveryInv, AdTypeOK, ProbeTypeOK, Attempted, HeardBy, Go
  <2>2. SavedIsCommitted'
    BY <1>4 DEF DiscoveryInv, AdTypeOK, SavedIsCommitted, Attempted, HeardBy
  <2>. QED BY <1>1, <2>1, <2>2, ProbeStep
<1>. QED BY <1>2, <1>3, <1>4 DEF ConnectFails, Answer, AgentRefuses

\* The row has its fields.
LEMMA RowFields ==
    ASSUME DiscoveryInv
    PROVE  /\ cache = [row |-> cache.row, methods |-> cache.methods, stale |-> cache.stale,
                       observed |-> cache.observed]
           /\ cache.row \in BOOLEAN /\ cache.methods \in {0} \cup Editions
           /\ cache.stale \in BOOLEAN /\ cache.observed \in Evidence
<1>1. CASE cache \in CacheRow
  BY <1>1 DEF CacheRow
<1>2. CASE cache = NoRow
  BY <1>2 DEF NoRow, Evidence
<1>. QED BY <1>1, <1>2 DEF DiscoveryInv, AdTypeOK

\* The saved row merges with the evidence in it (cache_write_full).
LEMMA SaveKeeps ==
    ASSUME DiscoveryInv, NEW a \in Asker, Save(a)
    PROVE  DiscoveryInv' /\ EvidenceStep
<1>1. cache' = SavedRow(a) /\ cache'.observed = cache.observed
  BY DEF Save, SavedRow
<1>2. cache' \in CacheRow \cup {NoRow}
  <2>1. seen[a] \in {0} \cup Editions
    BY DEF DiscoveryInv, AdTypeOK
  <2>2. cache.observed \in Evidence
    BY RowFields
  <2>. QED BY <1>1, <2>1, <2>2 DEF SavedRow, CacheRow
<1>3. ProbeTypeOK'
  BY DEF Save, DiscoveryInv, AdTypeOK, ProbeTypeOK, AfterProbe, Go
<1>4. SavedIsCommitted'
  BY DEF Save, DiscoveryInv, AdTypeOK, SavedIsCommitted
<1>5. ask[a] = "save" /\ \A b \in Asker : b # a => ask'[b] = ask[b]
  BY DEF Save, Go, DiscoveryInv, AdTypeOK
<1>6. EvidenceStep
  BY <1>1, <1>5 DEF EvidenceStep, DiscoveryInv, SavedIsCommitted, AnswersFresh
<1>. QED BY <1>2, <1>3, <1>4, <1>6
         DEF Save, DiscoveryInv, AdTypeOK, ProbeTypeOK, RoomToReturn, Editions

\* save_observed keeps the methods and the marker.
LEMMA ObservesKeeps ==
    ASSUME DiscoveryInv, NEW evidence \in Evidence
    PROVE  /\ Observes(evidence) \in CacheRow
           /\ Observes(evidence).methods = cache.methods
           /\ Observes(evidence).stale = cache.stale
BY RowFields DEF Observes, CacheRow

\* note_session_success, note_auth_required, and the evidence of a login or logout.
LEMMA ObservedKeeps ==
    ASSUME DiscoveryInv,
           SessionRefused \/ SessionAccepted \/ \E a \in Asker : Note(a)
    PROVE  DiscoveryInv' /\ EvidenceStep
<1>1. PICK evidence \in Evidence : cache' = Observes(evidence)
  BY DEF SessionRefused, SessionAccepted, Note, Evidence
<1>2. cache' \in CacheRow /\ cache'.methods = cache.methods /\ cache'.stale = cache.stale
  BY <1>1, ObservesKeeps
<1>3. EvidenceStep
  BY <1>2 DEF DiscoveryInv, SavedIsCommitted, EvidenceStep, AnswersFresh
<1>4. UNCHANGED <<edition, present, change, crashes>>
  BY DEF SessionRefused, SessionAccepted, Note, probing
<1>5. ProbeTypeOK'
  BY DEF SessionRefused, SessionAccepted, Note, probing, Begins, Go,
         DiscoveryInv, AdTypeOK, ProbeTypeOK
<1>6. SavedIsCommitted'
  BY DEF SessionRefused, SessionAccepted, Note, probing, Begins,
         DiscoveryInv, AdTypeOK, SavedIsCommitted
<1>7. AdTypeOK'
  BY <1>2, <1>4, <1>5 DEF DiscoveryInv, AdTypeOK, ProbeTypeOK, Editions
<1>. QED BY <1>3, <1>4, <1>6, <1>7 DEF DiscoveryInv, RoomToReturn

\* Changes of the agent, and the crash.
LEMMA ChangesKeep ==
    ASSUME DiscoveryInv,
           Change \/ Remove \/ Reinstall \/ Overtake \/ Mark \/ Forget \/ Crash
    PROVE  DiscoveryInv' /\ EvidenceStep
<1>1. CASE Change \/ Remove \/ Reinstall
  <2>1. UNCHANGED <<cache, turn, ask, job, seen, outcome, heard, overtaken, saved, crashes>>
    BY <1>1 DEF Change, Remove, Reinstall, probing
  <2>2. edition' \in Editions /\ present' \in BOOLEAN /\ RoomToReturn'
    <3>1. edition \in 1..MaxChange + 1 /\ present \in BOOLEAN /\ MaxChange \in Nat
      BY AuthAssumption DEF DiscoveryInv, AdTypeOK, Editions
    <3>2. CASE Change
      BY <3>1, <3>2 DEF Change, Editions, RoomToReturn
    <3>3. CASE Remove
      BY <3>1, <3>3 DEF Remove, Editions, RoomToReturn
    <3>4. CASE Reinstall
      <4>1. edition <= MaxChange
        BY <3>4 DEF Reinstall, DiscoveryInv, RoomToReturn
      <4>. QED BY <3>1, <3>4, <4>1 DEF Reinstall, Editions, RoomToReturn
    <3>. QED BY <1>1, <3>2, <3>3, <3>4
  <2>3. change' \in {"none", "invalidate", "forget", "mark", "delete"}
    BY <1>1 DEF Change, Remove, Reinstall
  <2>4. AdTypeOK' /\ SavedIsCommitted'
    BY <2>1, <2>2, <2>3
       DEF DiscoveryInv, AdTypeOK, SavedIsCommitted, Editions, CacheRow, NoRow
  <2>. QED BY <2>1, <2>2, <2>4, EvidenceOfStep DEF DiscoveryInv
<1>2. CASE Overtake
  <2>1. UNCHANGED <<edition, present, cache, turn, ask, job, seen, outcome, heard, saved,
                    crashes>>
    BY <1>2 DEF Overtake
  <2>2. /\ change' \in {"none", "invalidate", "forget", "mark", "delete"}
        /\ overtaken' \subseteq Asker
    BY <1>2 DEF Overtake, Probing, DiscoveryInv, AdTypeOK
  <2>3. AdTypeOK' /\ SavedIsCommitted' /\ RoomToReturn'
    BY <2>1, <2>2
       DEF DiscoveryInv, AdTypeOK, SavedIsCommitted, RoomToReturn, Editions, CacheRow, NoRow
  <2>. QED BY <2>1, <2>3, EvidenceOfStep DEF DiscoveryInv
<1>3. CASE Mark \/ Forget
  <2>1. UNCHANGED <<edition, present, turn, ask, job, seen, outcome, heard, overtaken, saved,
                    crashes>>
    BY <1>3 DEF Mark, Forget, probing
  <2>2. ASSUME Mark
        PROVE  /\ change' = "none" /\ cache' \in CacheRow \cup {NoRow}
               /\ cache'.observed = cache.observed
    <3>1. cache' = [row |-> cache.row, methods |-> cache.methods, stale |-> cache.row,
                    observed |-> cache.observed]
      BY <2>2, RowFields DEF Mark
    <3>2. CASE cache \in CacheRow
      BY <2>2, <3>1, <3>2, RowFields DEF Mark, CacheRow
    <3>3. CASE cache = NoRow
      BY <2>2, <3>1, <3>3 DEF Mark, NoRow
    <3>. QED BY <3>2, <3>3 DEF DiscoveryInv, AdTypeOK
  <2>3. change' = "none" /\ cache' \in CacheRow \cup {NoRow}
    BY <1>3, <2>2 DEF Forget
  <2>4. cache'.row => cache'.observed = cache.observed
    BY <1>3, <2>2 DEF Forget, NoRow
  <2>5. AdTypeOK' /\ SavedIsCommitted' /\ RoomToReturn'
    BY <2>1, <2>3 DEF DiscoveryInv, AdTypeOK, SavedIsCommitted, RoomToReturn, Editions
  <2>. QED BY <2>1, <2>4, <2>5 DEF DiscoveryInv, SavedIsCommitted, EvidenceStep, AnswersFresh
<1>4. CASE Crash
  <2>1. UNCHANGED <<edition, present, cache>> /\ crashes' \in 0..MaxCrash
    BY <1>4, AuthAssumption DEF Crash, DiscoveryInv, AdTypeOK
  <2>2. ProbeTypeOK' /\ SavedIsCommitted' /\ change' = "none"
    BY <1>4 DEF Crash, ProbeTypeOK, SavedIsCommitted
  <2>. QED BY <2>1, <2>2, EvidenceOfStep
           DEF DiscoveryInv, AdTypeOK, ProbeTypeOK, RoomToReturn, Editions, CacheRow, NoRow
<1>. QED BY <1>1, <1>2, <1>3, <1>4

\* Nothing was asked.
LEMMA DiscoveryInit == AdInit => DiscoveryInv
<1>. SUFFICES ASSUME AdInit PROVE DiscoveryInv
  OBVIOUS
<1>1. ProbeTypeOK /\ SavedIsCommitted
  BY DEF AdInit, ProbeTypeOK, SavedIsCommitted
<1>. QED BY <1>1, AuthAssumption
         DEF AdInit, DiscoveryInv, AdTypeOK, ProbeTypeOK, RoomToReturn, Editions

\* Every step keeps the invariant, and the evidence.
LEMMA DiscoveryStep == DiscoveryInv /\ [AdNext]_adVars => DiscoveryInv' /\ [EvidenceStep]_adVars
<1>. SUFFICES ASSUME DiscoveryInv, [AdNext]_adVars PROVE DiscoveryInv' /\ [EvidenceStep]_adVars
  OBVIOUS
<1>1. CASE AdNext
  BY <1>1, RefreshKeeps, EndsKeep, SaveKeeps, ObservedKeeps, ChangesKeep DEF AdNext
<1>2. CASE UNCHANGED adVars
  BY <1>2 DEF adVars, probing, DiscoveryInv, AdTypeOK, SavedIsCommitted, RoomToReturn, Editions,
              CacheRow, NoRow
<1>. QED BY <1>1, <1>2

\* Types hold, and a committed attempt that a request has made or heard of was
\* committed since it was asked (auth/service.rs:496-547): the inductive invariant.
THEOREM DiscoveryInvHolds == AdSpec => []DiscoveryInv
BY DiscoveryInit, DiscoveryStep, PTL DEF AdSpec

\* An answer is fresh only by a probe committed since it was asked, and no probe,
\* marker or crash changes the recorded evidence of a login (auth/service.rs:496-547,
\* 1353-1426).
THEOREM EvidenceAlwaysHolds == AdSpec => EvidenceHolds
<1>1. [EvidenceStep]_adVars
        => [\A a \in Asker :
              ask[a] = "answer" /\ ask'[a] = "idle" /\ AnswersFresh(a) => a \in saved]_adVars
  BY DEF EvidenceStep
<1>2. [EvidenceStep]_adVars
        => [cache'.row /\ (cache'.methods # cache.methods \/ cache'.stale # cache.stale)
              => cache'.observed = cache.observed]_adVars
  BY DEF EvidenceStep
<1>. QED BY <1>1, <1>2, DiscoveryInvHolds, DiscoveryStep, PTL
         DEF AdSpec, EvidenceHolds, FreshIsSince, ProbeKeepsEvidence

-----------------------------------------------------------------------------
(* The authentication flows.  That an ended flow shows no prompt is not    *)
(* inductive alone: an id out of the registry has the state "unused", and  *)
(* would be given a prompt by a task that still ran. `TaskHasFlow` says    *)
(* that an unused id has no task; with the types it is all that is needed, *)
(* because every step that gives a prompt looks at the state, or at the    *)
(* prompt, in the same step.                                               *)

AfSpec == AfInit /\ [][AfNext]_afVars

TaskHasFlow == \A f \in Flow : state[f] = "unused" => task[f] = "none"

FlowInv == AfTypeOK /\ TaskHasFlow /\ EndedKeepsNoPrompt

\* A step that keeps the outcome of every flow, or prunes it.
OneOutcome == \A f \in Flow : state[f] \in Ended => state'[f] \in {state[f], "unused"}

-----------------------------------------------------------------------------
(* What the steps are made of.                                             *)

\* Finishing a flow that exists gives it an outcome, and leaves one it has.
LEMMA FinishEnds ==
    ASSUME FlowInv, NEW f \in Flow, state[f] # "unused",
           NEW how \in Ended, Finish(f, how)
    PROVE  /\ state' \in [Flow -> {"unused", "running", "waiting"} \cup Ended]
           /\ prompt' \in [Flow -> {"none", "shown", "relaying"}]
           /\ \A g \in Flow : state'[g] = "unused" => state[g] = "unused"
           /\ \A g \in Flow : state'[g] \in Ended \cup {"unused"} => prompt'[g] = "none"
           /\ \A g \in Flow : state[g] \in Ended => state'[g] = state[g]
<1>1. CASE state[f] \in Ended
  BY <1>1 DEF FlowInv, AfTypeOK, EndedKeepsNoPrompt, Finish
<1>2. CASE state[f] \notin Ended
  BY <1>2 DEF FlowInv, AfTypeOK, EndedKeepsNoPrompt, Finish, Ended
<1>. QED BY <1>1, <1>2

\* A request that ends leaves requests of the right types.
LEMMA EndsTyped ==
    ASSUME AfTypeOK, NEW c \in Client, Ends(c)
    PROVE  /\ req' \in [Client -> {"idle", "probe", "bounds", "insert", "close", "callback", "relay"}]
           /\ want' \in [Client -> Kind] /\ on' \in [Client -> Flow \cup {NoFlow}]
BY DEF AfTypeOK, Ends, To, Kind

\* A step of a request that leaves the flows alone keeps the invariant.
LEMMA RequestStep ==
    ASSUME FlowInv, UNCHANGED <<flow, stopped>>,
           req' \in [Client -> {"idle", "probe", "bounds", "insert", "close", "callback", "relay"}],
           want' \in [Client -> Kind], on' \in [Client -> Flow \cup {NoFlow}]
    PROVE  FlowInv'
BY DEF FlowInv, AfTypeOK, TaskHasFlow, EndedKeepsNoPrompt, flow

\* A step of a flow's task that finishes the flow keeps the invariant.
LEMMA TaskEnds ==
    ASSUME FlowInv, NEW f \in Flow, task[f] # "none",
           NEW how \in Ended, Finish(f, how),
           task' = [task EXCEPT ![f] = "done"], agent' = [agent EXCEPT ![f] = "ended"],
           UNCHANGED <<kind, captured, request, stopped>>
    PROVE  FlowInv' /\ OneOutcome
<1>1. state[f] # "unused"
  BY DEF FlowInv, TaskHasFlow
<1>2. /\ state' \in [Flow -> {"unused", "running", "waiting"} \cup Ended]
      /\ prompt' \in [Flow -> {"none", "shown", "relaying"}]
      /\ \A g \in Flow : state'[g] = "unused" => state[g] = "unused"
      /\ \A g \in Flow : state'[g] \in Ended \cup {"unused"} => prompt'[g] = "none"
      /\ \A g \in Flow : state[g] \in Ended => state'[g] = state[g]
  BY <1>1, FinishEnds
<1>3. AfTypeOK'
  BY <1>2 DEF FlowInv, AfTypeOK, request
<1>4. state'[f] # "unused"
  BY <1>1, <1>2
<1>5. TaskHasFlow'
  BY <1>2, <1>4 DEF FlowInv, AfTypeOK, TaskHasFlow
<1>. QED BY <1>2, <1>3, <1>5 DEF FlowInv, EndedKeepsNoPrompt, OneOutcome

-----------------------------------------------------------------------------
(* The steps keep the invariant and the outcomes.                          *)

\* start_terminal, start_protocol.
LEMMA StartsKeep ==
    ASSUME FlowInv, NEW c \in Client,
           \/ \E k \in Kind : StartFlow(c, k)
           \/ ProbeAnswers(c) \/ ProbeFails(c) \/ Bounds(c) \/ Insert(c)
    PROVE  FlowInv' /\ OneOutcome
<1>. USE DEF OneOutcome
<1>1. ASSUME NEW k \in Kind, StartFlow(c, k) PROVE FlowInv' /\ OneOutcome
  BY <1>1, RequestStep DEF StartFlow, To, FlowInv, AfTypeOK, flow
<1>2. CASE ProbeAnswers(c)
  BY <1>2, RequestStep DEF ProbeAnswers, To, FlowInv, AfTypeOK, flow
<1>3. CASE ProbeFails(c)
  BY <1>3, RequestStep, EndsTyped DEF ProbeFails, FlowInv, flow
<1>4. CASE Bounds(c)
  <2>1. CASE Active(want[c]) = {}
    BY <1>4, <2>1, RequestStep DEF Bounds, To, FlowInv, AfTypeOK, flow
  <2>2. CASE Active(want[c]) # {}
    BY <1>4, <2>2, RequestStep, EndsTyped DEF Bounds, FlowInv, flow
  <2>. QED BY <2>1, <2>2
<1>5. CASE Insert(c)
  <2>1. PICK f \in Flow :
            /\ state[f] = "unused"
            /\ kind' = [kind EXCEPT ![f] = want[c]] /\ state' = [state EXCEPT ![f] = "running"]
            /\ task' = [task EXCEPT ![f] = IF want[c] = "terminal" THEN "watch" ELSE "connect"]
            /\ agent' = [agent EXCEPT ![f] = IF want[c] = "terminal" THEN "live" ELSE "none"]
    BY <1>5 DEF Insert
  <2>2. Ends(c) /\ UNCHANGED <<prompt, captured, stopped>>
    BY <1>5 DEF Insert
  <2>3. AfTypeOK'
    BY <2>1, <2>2, EndsTyped DEF FlowInv, AfTypeOK
  <2>4. TaskHasFlow'
    BY <2>1 DEF FlowInv, AfTypeOK, TaskHasFlow
  <2>5. EndedKeepsNoPrompt'
    BY <2>1, <2>2 DEF FlowInv, AfTypeOK, EndedKeepsNoPrompt
  <2>6. OneOutcome
    BY <2>1 DEF FlowInv, AfTypeOK, Ended
  <2>. QED BY <2>3, <2>4, <2>5, <2>6 DEF FlowInv
<1>. QED BY <1>1, <1>2, <1>3, <1>4, <1>5

\* supervise.
LEMMA SupervisorKeeps ==
    ASSUME FlowInv, NEW f \in Flow,
           ExitsWell(f) \/ PublishSuccess(f) \/ ExitsBadly(f) \/ Supervise(f)
    PROVE  FlowInv' /\ OneOutcome
<1>1. CASE ExitsWell(f)
  <2>1. AfTypeOK'
    BY <1>1 DEF ExitsWell, FlowInv, AfTypeOK, request
  <2>2. TaskHasFlow'
    BY <1>1 DEF ExitsWell, FlowInv, AfTypeOK, TaskHasFlow
  <2>. QED BY <1>1, <2>1, <2>2 DEF ExitsWell, FlowInv, EndedKeepsNoPrompt, OneOutcome
<1>2. CASE PublishSuccess(f)
  BY <1>2, TaskEnds DEF PublishSuccess, Ended
<1>3. CASE ExitsBadly(f)
  BY <1>3, TaskEnds DEF ExitsBadly, Ended
<1>4. CASE Supervise(f)
  BY <1>4, TaskEnds DEF Supervise, Ended
<1>. QED BY <1>1, <1>2, <1>3, <1>4

\* drive_protocol_flow.
LEMMA DriverKeeps ==
    ASSUME FlowInv, NEW f \in Flow,
           \/ Connected(f) \/ NoConnection(f) \/ Authenticated(f) \/ Conclude(f)
           \/ Rejected(f) \/ Deadline(f) \/ BadCapture(f) \/ PollEnded(f) \/ Poll(f)
           \/ Capture(f) \/ CaptureWaits(f)
    PROVE  FlowInv' /\ OneOutcome
\* A step of the task to another of its places.
<1>1. CASE Connected(f) \/ Authenticated(f) \/ PollEnded(f)
  <2>. USE <1>1 DEF Connected, Authenticated, PollEnded
  <2>1. AfTypeOK'
    BY DEF FlowInv, AfTypeOK, request
  <2>2. TaskHasFlow'
    BY DEF FlowInv, AfTypeOK, TaskHasFlow
  <2>. QED BY <2>1, <2>2 DEF FlowInv, EndedKeepsNoPrompt, OneOutcome
\* The ends.
<1>2. CASE NoConnection(f) \/ Conclude(f) \/ Rejected(f) \/ Deadline(f) \/ BadCapture(f)
  <2>1. task[f] # "none" /\ \E how \in Ended : Stops(f, how)
    BY <1>2 DEF NoConnection, Conclude, Rejected, Deadline, BadCapture, Ended
  <2>. QED BY <2>1, TaskEnds DEF Stops
\* The flow waits for its user, or no longer does.
<1>3. CASE Poll(f) \/ CaptureWaits(f)
  <2>1. task[f] # "none" /\ state[f] # "unused"
    BY <1>3 DEF Poll, CaptureWaits, FlowInv, TaskHasFlow
  <2>2. AfTypeOK'
    BY <1>3 DEF Poll, CaptureWaits, NoteWaiting, FlowInv, AfTypeOK, request
  <2>3. TaskHasFlow'
    BY <1>3, <2>1 DEF Poll, CaptureWaits, NoteWaiting, FlowInv, AfTypeOK, TaskHasFlow
  <2>4. \A g \in Flow : state'[g] \in Ended \cup {"unused"} => state'[g] = state[g]
    BY <1>3, <2>1 DEF Poll, CaptureWaits, NoteWaiting, FlowInv, AfTypeOK, Ended
  <2>5. EndedKeepsNoPrompt'
    BY <1>3, <2>4 DEF Poll, CaptureWaits, FlowInv, EndedKeepsNoPrompt
  <2>6. OneOutcome
    BY <1>3 DEF Poll, CaptureWaits, NoteWaiting, FlowInv, AfTypeOK, OneOutcome, Ended
  <2>. QED BY <2>2, <2>3, <2>5, <2>6 DEF FlowInv
\* The prompt is installed under the lock under which the state was looked at.
<1>4. CASE Capture(f)
  <2>1. CASE Installs(f)
    <3>1. state[f] \notin Ended \cup {"unused"}
      BY <1>4, <2>1 DEF Capture, Installs, FlowInv, TaskHasFlow
    <3>2. AfTypeOK'
      BY <1>4, <2>1 DEF Capture, FlowInv, AfTypeOK, request
    <3>3. TaskHasFlow'
      BY <1>4, <2>1, <3>1 DEF Capture, FlowInv, AfTypeOK, TaskHasFlow
    <3>4. EndedKeepsNoPrompt'
      BY <1>4, <2>1, <3>1 DEF Capture, FlowInv, AfTypeOK, EndedKeepsNoPrompt
    <3>. QED BY <1>4, <3>2, <3>3, <3>4 DEF Capture, FlowInv, OneOutcome
  <2>2. CASE ~Installs(f)
    BY <1>4, <2>2 DEF Capture, FlowInv, AfTypeOK, TaskHasFlow, EndedKeepsNoPrompt, OneOutcome, request
  <2>. QED BY <2>1, <2>2
<1>. QED BY <1>1, <1>2, <1>3, <1>4

\* cancel, relay.
LEMMA BrowserKeeps ==
    ASSUME FlowInv, NEW c \in Client,
           \/ \E f \in Flow : Cancel(c, f) \/ BeginCallback(c, f)
           \/ CloseClient(c) \/ TakeCallback(c) \/ Relayed(c)
    PROVE  FlowInv' /\ OneOutcome
<1>1. ASSUME NEW f \in Flow, Cancel(c, f) PROVE FlowInv' /\ OneOutcome
  <2>1. state[f] # "unused" /\ Finish(f, "cancelled") /\ "cancelled" \in Ended
    BY <1>1 DEF Cancel, Ended
  <2>2. /\ state' \in [Flow -> {"unused", "running", "waiting"} \cup Ended]
        /\ prompt' \in [Flow -> {"none", "shown", "relaying"}]
        /\ \A g \in Flow : state'[g] = "unused" => state[g] = "unused"
        /\ \A g \in Flow : state'[g] \in Ended \cup {"unused"} => prompt'[g] = "none"
        /\ \A g \in Flow : state[g] \in Ended => state'[g] = state[g]
    BY <2>1, FinishEnds
  <2>3. AfTypeOK'
    BY <1>1, <2>2 DEF Cancel, To, FlowInv, AfTypeOK, request
  <2>4. TaskHasFlow'
    BY <1>1, <2>2 DEF Cancel, FlowInv, TaskHasFlow
  <2>. QED BY <2>2, <2>3, <2>4 DEF FlowInv, EndedKeepsNoPrompt, OneOutcome
<1>2. ASSUME NEW f \in Flow, BeginCallback(c, f) PROVE FlowInv' /\ OneOutcome
  BY <1>2, RequestStep DEF BeginCallback, To, FlowInv, AfTypeOK, flow, OneOutcome
<1>3. CASE CloseClient(c)
  <2>1. AfTypeOK'
    BY <1>3, EndsTyped DEF CloseClient, FlowInv, AfTypeOK
  <2>. QED
    BY <1>3, <2>1 DEF CloseClient, FlowInv, TaskHasFlow, EndedKeepsNoPrompt, OneOutcome
<1>4. CASE TakeCallback(c)
  <2>1. CASE Relayable(on[c])
    <3>1. AfTypeOK'
      BY <1>4, <2>1 DEF TakeCallback, To, FlowInv, AfTypeOK
    <3>2. EndedKeepsNoPrompt'
      BY <1>4, <2>1 DEF TakeCallback, Relayable, FlowInv, AfTypeOK, EndedKeepsNoPrompt
    <3>. QED BY <1>4, <3>1, <3>2 DEF TakeCallback, FlowInv, TaskHasFlow, OneOutcome
  <2>2. CASE ~Relayable(on[c])
    <3>1. Ends(c) /\ UNCHANGED <<flow, stopped>>
      BY <1>4, <2>2 DEF TakeCallback, flow
    <3>. QED BY <3>1, RequestStep, EndsTyped DEF FlowInv, flow, OneOutcome
  <2>. QED BY <2>1, <2>2
<1>5. CASE Relayed(c)
  <2>0. PICK left \in {"none", "shown"} :
            prompt' = [prompt EXCEPT ![on[c]] = IF @ = "none" THEN @ ELSE left]
    BY <1>5 DEF Relayed
  <2>1. AfTypeOK'
    <3>1. prompt' \in [Flow -> {"none", "shown", "relaying"}]
      BY <2>0 DEF FlowInv, AfTypeOK
    <3>2. Ends(c) /\ UNCHANGED <<kind, state, task, agent, captured, stopped>>
      BY <1>5 DEF Relayed
    <3>. QED BY <3>1, <3>2, EndsTyped DEF FlowInv, AfTypeOK
  <2>2. EndedKeepsNoPrompt'
    BY <1>5 DEF Relayed, FlowInv, AfTypeOK, EndedKeepsNoPrompt
  <2>. QED BY <1>5, <2>1, <2>2 DEF Relayed, FlowInv, TaskHasFlow, OneOutcome
<1>. QED BY <1>1, <1>2, <1>3, <1>4, <1>5

\* shutdown, prune.
LEMMA RegistryKeeps ==
    ASSUME FlowInv, Shutdown \/ \E f \in Flow : Prune(f)
    PROVE  FlowInv' /\ OneOutcome
<1>1. CASE Shutdown
  <2>1. AfTypeOK'
    BY <1>1 DEF Shutdown, FlowInv, AfTypeOK, Ended, request
  <2>2. TaskHasFlow' /\ OneOutcome
    BY <1>1 DEF Shutdown, FlowInv, TaskHasFlow, OneOutcome, Ended
  <2>3. EndedKeepsNoPrompt'
    BY <1>1 DEF Shutdown, FlowInv, AfTypeOK, EndedKeepsNoPrompt
  <2>. QED BY <2>1, <2>2, <2>3 DEF FlowInv
<1>2. ASSUME NEW f \in Flow, Prune(f) PROVE FlowInv' /\ OneOutcome
  <2>1. AfTypeOK'
    BY <1>2 DEF Prune, FlowInv, AfTypeOK, Kind, request
  <2>2. TaskHasFlow' /\ OneOutcome
    BY <1>2 DEF Prune, FlowInv, AfTypeOK, TaskHasFlow, OneOutcome
  <2>3. EndedKeepsNoPrompt'
    BY <1>2 DEF Prune, FlowInv, AfTypeOK, EndedKeepsNoPrompt
  <2>. QED BY <2>1, <2>2, <2>3 DEF FlowInv
<1>. QED BY <1>1, <1>2

LEMMA FlowInvInit == AfInit => FlowInv
<1>. SUFFICES ASSUME AfInit PROVE FlowInv
  OBVIOUS
<1>1. /\ kind \in [Flow -> Kind]
      /\ state \in [Flow -> {"unused", "running", "waiting"} \cup Ended]
      /\ prompt \in [Flow -> {"none", "shown", "relaying"}]
  BY DEF AfInit, Kind
<1>2. req \in [Client -> {"idle", "probe", "bounds", "insert", "close", "callback", "relay"}]
  BY DEF AfInit
<1>3. want \in [Client -> Kind] /\ on \in [Client -> Flow \cup {NoFlow}]
  BY DEF AfInit, Kind
<1>4. AfTypeOK
  BY <1>1, <1>2, <1>3 DEF AfInit, AfTypeOK
<1>5. TaskHasFlow /\ EndedKeepsNoPrompt
  BY DEF AfInit, TaskHasFlow, EndedKeepsNoPrompt
<1>. QED BY <1>4, <1>5 DEF FlowInv

LEMMA FlowInvStep == FlowInv /\ AfNext => FlowInv' /\ OneOutcome
BY StartsKeep, SupervisorKeeps, DriverKeeps, BrowserKeeps, RegistryKeeps DEF AfNext

-----------------------------------------------------------------------------
(* The theorems.                                                           *)

\* Types, no task without a flow and no prompt without an unfinished flow hold in
\* every reachable state (auth/flow.rs, auth/protocol.rs): the inductive invariant.
THEOREM FlowInvHolds == AfSpec => []FlowInv
<1>1. FlowInv /\ UNCHANGED afVars => FlowInv'
  BY DEF FlowInv, AfTypeOK, TaskHasFlow, EndedKeepsNoPrompt, afVars, flow, request
<1>. QED BY <1>1, FlowInvInit, FlowInvStep, PTL DEF AfSpec

\* However a cancel, a relay that fails and a capture interleave, no flow that has
\* ended shows a prompt to authorize (protocol.rs:378-381, 432-462).
THEOREM EndedKeepsNoPromptHolds == AfSpec => []EndedKeepsNoPrompt
BY FlowInvHolds, PTL DEF FlowInv

\* Whoever ends a flow first gives it its outcome, and no later step changes it
\* (flow.rs:186-222, protocol.rs:375-406).
THEOREM OutcomeStaysHolds == AfSpec => OutcomeStays
<1>1. FlowInv /\ [AfNext]_afVars
        => [\A f \in Flow : state[f] \in Ended => state'[f] \in {state[f], "unused"}]_afVars
  BY FlowInvStep DEF OneOutcome
<1>. QED BY <1>1, FlowInvHolds, PTL DEF AfSpec, OutcomeStays

-----------------------------------------------------------------------------
(* Operations that run in the background.  A pruning drops what ended by   *)
(* counting, and an operation that ends later only adds to the count of    *)
(* those that ended no sooner: finiteness of what has begun is all the     *)
(* strengthening it needs.  What the page shows needs none: every handler  *)
(* leaves a shown key with a poll.                                         *)

OpSpec == OpInit /\ [][OpNext]_opVars

\* The map holds what has begun.
KeptBegun == kept \subseteq begun /\ IsFiniteSet(begun)
OpInv == OperationsFollowed /\ KeptBegun

\* Of a set of numbers one is the first.
LEMMA First ==
    ASSUME NEW S \in SUBSET Nat, S # {}
    PROVE  \E o \in S : \A other \in S : o <= other
<1>. DEFINE R == {p \in Nat \X Nat : p[1] < p[2]}
<1>1. IsWellFoundedOn(R, Nat)
  BY NatLessThanWellFounded DEF OpToRel
<1>2. PICK o \in S : \A other \in S : ~(<<other, o>> \in R)
  <2>. HIDE DEF R
  <2>. QED BY <1>1, WFMin
<1>3. ASSUME NEW other \in S PROVE o <= other
  <2>1. ~(<<other, o>> \in R) /\ other \in Nat /\ o \in Nat
    BY <1>2
  <2>2. ~(other < o)
    BY <2>1
  <2>. QED BY <2>1, <2>2
<1>. QED BY <1>3

\* Operations that ended no sooner than o.
Later(o) == {other \in begun \ {o} : status[other] # "running" /\ completed[other] >= completed[o]}

\* A pruning leaves those that run, and drops one that ended when its time is over or
\* enough others ended no sooner.
LEMMA PrunedKeeps ==
    ASSUME OpInv, NEW left \in Pruned
    PROVE  /\ left \subseteq kept
           /\ \A o \in kept \ left :
                /\ status[o] # "running"
                /\ clock >= completed[o] + Retention \/ Cardinality(Later(o)) >= MaxTerminal
<1>. DEFINE ended == {o \in kept \ Expired : status[o] # "running"}
<1>1. PICK S \in SUBSET ended :
        /\ left = kept \ (Expired \cup S)
        /\ Cardinality(ended \ S) =
            IF Cardinality(ended) > MaxTerminal THEN MaxTerminal ELSE Cardinality(ended)
        /\ \A o \in S, other \in ended \ S : completed[o] <= completed[other]
  BY DEF Pruned, Surplus
<1>2. ASSUME NEW o \in S
      PROVE  Cardinality(Later(o)) >= MaxTerminal
  <2>1. IsFiniteSet(begun) /\ IsFiniteSet(ended) /\ kept \subseteq begun
    <3>1. IsFiniteSet(begun) /\ ended \in SUBSET begun /\ kept \subseteq begun
      BY DEF OpInv, KeptBegun
    <3>. HIDE DEF ended
    <3>. QED BY <3>1, FS_Subset
  <2>2. /\ Cardinality(ended \ S) # Cardinality(ended)
        /\ Cardinality(ended \ S) \in Nat
    <3>1. ended \ S \in SUBSET ended /\ o \in ended /\ o \notin ended \ S
      OBVIOUS
    <3>. HIDE DEF ended
    <3>. QED BY <2>1, <3>1, FS_Subset, FS_CardinalityType
  <2>3. Cardinality(ended \ S) = MaxTerminal
    <3>. HIDE DEF ended
    <3>. QED BY <1>1, <2>2
  <2>4. ended \ S \in SUBSET Later(o)
    <3>1. ASSUME NEW other \in ended \ S PROVE other \in Later(o)
      <4>1. completed[o] <= completed[other] /\ other # o /\ other \in begun
        BY <1>1, <2>1
      <4>2. completed[o] \in Nat /\ completed[other] \in Nat
        BY <2>1, <4>1 DEF OpInv, OperationsFollowed, OpTypeOK
      <4>. QED BY <4>1, <4>2 DEF Later
    <3>. QED BY <3>1
  <2>5. IsFiniteSet(Later(o))
    BY <2>1, FS_Subset DEF Later
  <2>6. Cardinality(ended \ S) <= Cardinality(Later(o)) /\ Cardinality(Later(o)) \in Nat
    <3>. HIDE DEF ended
    <3>. QED BY <2>4, <2>5, FS_Subset, FS_CardinalityType
  <2>. QED BY <2>3, <2>6, OperationsAssumption
<1>3. ASSUME NEW o \in kept \ left
      PROVE  /\ status[o] # "running"
             /\ clock >= completed[o] + Retention \/ Cardinality(Later(o)) >= MaxTerminal
  <2>1. o \in Expired \/ o \in S
    BY <1>1, <1>3
  <2>. QED BY <1>1, <1>2, <2>1 DEF Expired
<1>. QED BY <1>1, <1>3

\* What ended stays so, and what is dropped was dropped rightly: the hub keeps its word.
LEMMA KeptWord ==
    ASSUME OpInv, OpTypeOK', begun \subseteq begun', KeptBegun', clock <= clock',
           \A o \in begun :
                status[o] # "running" => status'[o] = status[o] /\ completed'[o] = completed[o],
           \A o \in begun' \ kept' :
                /\ o \in begun /\ status[o] # "running"
                /\ clock >= completed[o] + Retention \/ Cardinality(Later(o)) >= MaxTerminal
    PROVE  KeptForItsTime'
<1>. SUFFICES ASSUME NEW o \in Operation, o \in begun', o \notin kept'
              PROVE  /\ status'[o] # "running"
                     /\ clock' >= completed'[o] + Retention \/ Cardinality(Later(o)') >= MaxTerminal
  BY DEF KeptForItsTime, Later
<1>1. /\ o \in begun /\ status[o] # "running"
      /\ status'[o] = status[o] /\ completed'[o] = completed[o]
      /\ clock >= completed[o] + Retention \/ Cardinality(Later(o)) >= MaxTerminal
  OBVIOUS
<1>2. completed[o] \in Nat /\ clock \in Nat /\ clock' \in Nat
  BY DEF OpInv, OperationsFollowed, OpTypeOK
<1>3. CASE clock >= completed[o] + Retention
  BY <1>1, <1>2, <1>3, OperationsAssumption
<1>4. CASE Cardinality(Later(o)) >= MaxTerminal
  <2>1. Later(o) \in SUBSET Later(o)'
    BY <1>1 DEF Later
  <2>2. IsFiniteSet(Later(o)')
    BY FS_Subset DEF Later, KeptBegun
  <2>3. /\ Cardinality(Later(o)) <= Cardinality(Later(o)')
        /\ Cardinality(Later(o)) \in Nat /\ Cardinality(Later(o)') \in Nat
    <3>. DEFINE S == Later(o)
                T == Later(o)'
    <3>. HIDE DEF S, T
    <3>1. S \in SUBSET T /\ IsFiniteSet(T)
      BY <2>1, <2>2 DEF S, T
    <3>2. Cardinality(S) <= Cardinality(T) /\ Cardinality(S) \in Nat /\ Cardinality(T) \in Nat
      BY <3>1, FS_Subset, FS_CardinalityType
    <3>. QED BY <3>2 DEF S, T
  <2>. QED BY <1>1, <1>4, <2>3, OperationsAssumption
<1>. QED BY <1>1, <1>3, <1>4

\* What runs is in the map.
LEMMA RunningKept == OpInv => \A o \in Operation : Running(o) => o \in kept
BY DEF OpInv, OperationsFollowed, KeptForItsTime, Running

\* A step that leaves the hub alone.
LEMMA HubRests ==
    ASSUME OpInv, UNCHANGED operations
    PROVE  KeptForItsTime' /\ OneOperation' /\ KeptBegun'
BY DEF OpInv, OperationsFollowed, KeptForItsTime, OneOperation, KeptBegun, Running, operations

\* One that leaves the page's polls at their work, and what it shows.
LEMMA PageRests ==
    ASSUME OpInv, UNCHANGED <<agentOf, shown>>,
           \A o \in Operation : poll[o] # "none" => poll'[o] # "none"
    PROVE  BusyIsPolled'
<1>1. \A k \in Key : byKey[k] \in Operation \cup {NoOperation}
  BY DEF OpInv, OperationsFollowed, OpTypeOK
<1>. QED BY <1>1 DEF OpInv, OperationsFollowed, BusyIsPolled, KeysOf, shown

-----------------------------------------------------------------------------
(* The hub.                                                                *)

LEMMA PrunedTyped ==
    ASSUME OpInv, NEW left \in Pruned
    PROVE  left \subseteq Operation /\ left \subseteq begun
BY PrunedKeeps DEF OpInv, OperationsFollowed, OpTypeOK, KeptBegun

LEMMA RegisterKeeps ==
    ASSUME OpInv, NEW o \in Operation, RegisterOperation(o)
    PROVE  OpInv'
<1>1. PICK left \in Pruned :
        \/ kept' = left /\ begun' = begun /\ starting' = starting /\ Conflict(o, left)
        \/ /\ kept' = left \cup {o} /\ begun' = begun \cup {o} /\ ~Conflict(o, left)
           /\ starting' \in {starting, starting \cup {o}}
  BY DEF RegisterOperation
<1>2. /\ UNCHANGED <<agentOf, status, completed, clock, shown, polls, listed>>
      /\ o \notin begun
  BY DEF RegisterOperation
<1>3. OpTypeOK'
  BY <1>1, <1>2, PrunedTyped DEF OpInv, OperationsFollowed, OpTypeOK, shown, polls
<1>4. KeptBegun'
  <2>1. IsFiniteSet(begun \cup {o})
    BY FS_AddElement DEF OpInv, KeptBegun
  <2>. QED BY <1>1, <2>1, PrunedTyped DEF OpInv, KeptBegun
<1>5. KeptForItsTime'
  <2>1. \A q \in begun' \ kept' : q \in begun /\ q \notin left
    BY <1>1
  <2>2. \A q \in begun' \ kept' :
            /\ q \in begun /\ status[q] # "running"
            /\ clock >= completed[q] + Retention \/ Cardinality(Later(q)) >= MaxTerminal
    BY <2>1, PrunedKeeps DEF OpInv, OperationsFollowed, OpTypeOK, KeptForItsTime, Later
  <2>3. clock \in Nat
    BY DEF OpInv, OperationsFollowed, OpTypeOK
  <2>. QED BY <1>1, <1>2, <1>3, <1>4, <2>2, <2>3, KeptWord
<1>6. BusyIsPolled'
  BY <1>2, PageRests DEF polls
<1>7. OneOperation'
  <2>1. ASSUME NEW q \in Operation, NEW r \in Operation,
               Running(q)', Running(r)', agentOf[q] = agentOf[r], q # r
        PROVE  FALSE
    <3>1. status[q] = "running" /\ status[r] = "running" /\ q \in begun' /\ r \in begun'
      BY <1>2, <2>1 DEF Running
    <3>2. ~(Running(q) /\ Running(r))
      BY <2>1 DEF OpInv, OperationsFollowed, OneOperation
    <3>3. \A p \in Operation : Running(p) => p \in left
      BY PrunedKeeps, RunningKept DEF Running
    <3>. QED BY <1>1, <2>1, <3>1, <3>2, <3>3 DEF Running, Conflict
  <2>. QED BY <1>2, <2>1 DEF OneOperation
<1>. QED BY <1>3, <1>4, <1>5, <1>6, <1>7 DEF OpInv, OperationsFollowed

LEMMA EndKeeps ==
    ASSUME OpInv, NEW o \in Operation, EndOperation(o)
    PROVE  OpInv'
<1>1. PICK how \in State \ {"running"} :
        /\ Running(o)
        /\ status' = [status EXCEPT ![o] = how] /\ completed' = [completed EXCEPT ![o] = clock]
  BY DEF EndOperation, OutcomeIs
<1>2. UNCHANGED <<agentOf, begun, kept, clock, starting, shown, polls, listed>>
  BY DEF EndOperation
<1>3. OpTypeOK'
  BY <1>1, <1>2 DEF OpInv, OperationsFollowed, OpTypeOK, shown, polls
<1>4. KeptBegun' /\ BusyIsPolled'
  BY <1>2, PageRests DEF polls, OpInv, KeptBegun
<1>5. KeptForItsTime'
  <2>1. \A q \in begun :
            status[q] # "running" => status'[q] = status[q] /\ completed'[q] = completed[q]
    BY <1>1 DEF Running, OpInv, OperationsFollowed, OpTypeOK
  <2>2. \A q \in begun' \ kept' :
            /\ q \in begun /\ status[q] # "running"
            /\ clock >= completed[q] + Retention \/ Cardinality(Later(q)) >= MaxTerminal
    BY <1>2 DEF OpInv, OperationsFollowed, OpTypeOK, KeptForItsTime, Later
  <2>3. clock \in Nat
    BY DEF OpInv, OperationsFollowed, OpTypeOK
  <2>. QED BY <1>2, <1>3, <1>4, <2>1, <2>2, <2>3, KeptWord
<1>6. OneOperation'
  BY <1>1, <1>2 DEF OpInv, OperationsFollowed, OpTypeOK, OneOperation, Running
<1>. QED BY <1>3, <1>4, <1>5, <1>6 DEF OpInv, OperationsFollowed

LEMMA TickKeeps ==
    ASSUME OpInv, Tick
    PROVE  OpInv'
<1>1. clock' = clock + 1 /\ clock < MaxTicks /\ clock \in Nat
      /\ UNCHANGED <<agentOf, begun, status, completed, kept, starting, shown, polls, listed>>
  BY DEF Tick, OpInv, OperationsFollowed, OpTypeOK
<1>2. OpTypeOK'
  BY <1>1, OperationsAssumption DEF OpInv, OperationsFollowed, OpTypeOK, shown, polls
<1>3. KeptBegun' /\ BusyIsPolled' /\ OneOperation'
  BY <1>1, PageRests DEF polls, OpInv, KeptBegun, OperationsFollowed, OneOperation, Running
<1>4. \A q \in begun' \ kept' :
            /\ q \in begun /\ status[q] # "running"
            /\ clock >= completed[q] + Retention \/ Cardinality(Later(q)) >= MaxTerminal
  BY <1>1 DEF OpInv, OperationsFollowed, OpTypeOK, KeptForItsTime, Later
<1>5. KeptForItsTime'
  BY <1>1, <1>2, <1>3, <1>4, KeptWord
<1>. QED BY <1>2, <1>3, <1>5 DEF OpInv, OperationsFollowed

\* A read of the hub prunes, whatever it answers.
LEMMA ReadStep ==
    ASSUME OpInv, OpTypeOK', kept' \in Pruned, UNCHANGED <<agentOf, begun, status, completed, clock>>
    PROVE  KeptForItsTime' /\ OneOperation' /\ KeptBegun'
<1>1. KeptBegun' /\ OneOperation'
  BY PrunedTyped DEF OpInv, OperationsFollowed, KeptBegun, OneOperation, Running
<1>2. \A q \in begun' \ kept' :
            /\ q \in begun /\ status[q] # "running"
            /\ clock >= completed[q] + Retention \/ Cardinality(Later(q)) >= MaxTerminal
  BY PrunedKeeps DEF OpInv, OperationsFollowed, OpTypeOK, KeptForItsTime, Later
<1>3. clock \in Nat
  BY DEF OpInv, OperationsFollowed, OpTypeOK
<1>. QED BY <1>1, <1>2, <1>3, KeptWord

LEMMA GetKeeps ==
    ASSUME OpInv, NEW o \in Operation, Get(o)
    PROVE  OpInv'
<1>1. kept' \subseteq Operation
  BY PrunedTyped DEF Get
<1>2. OpTypeOK'
  <2>1. status[o] \in State
    BY DEF OpInv, OperationsFollowed, OpTypeOK
  <2>. QED BY <1>1, <2>1 DEF Get, OpInv, OperationsFollowed, OpTypeOK, shown
<1>3. BusyIsPolled'
  BY PageRests DEF Get, OpInv, OperationsFollowed, OpTypeOK
<1>. QED BY <1>2, <1>3, ReadStep DEF Get, OpInv, OperationsFollowed

LEMMA ListKeeps ==
    ASSUME OpInv, NEW l \in Load, List(l)
    PROVE  OpInv'
<1>1. kept' \subseteq Operation
  BY PrunedTyped DEF List
<1>2. OpTypeOK'
  BY <1>1 DEF List, OpInv, OperationsFollowed, OpTypeOK, shown, polls
<1>3. BusyIsPolled'
  BY PageRests DEF List, polls
<1>. QED BY <1>2, <1>3, ReadStep DEF List, OpInv, OperationsFollowed

-----------------------------------------------------------------------------
(* The page.                                                               *)

\* A step of the page alone keeps the invariant when it keeps the types and what is
\* shown polled.
LEMMA PageStep ==
    ASSUME OpInv, UNCHANGED operations,
           starting' \subseteq Operation,
           byId' \in [Operation -> State \cup {NoOperation}],
           byKey' \in [Key -> Operation \cup {NoOperation}],
           poll' \in [Operation -> {"none", "ask", "read", "load", "refresh", "close"}],
           answer' \in [Operation -> State \cup {NoOperation}],
           listed' \in [Load -> (SUBSET Operation) \cup {NotListed}],
           BusyIsPolled'
    PROVE  OpInv'
<1>1. OpTypeOK'
  BY DEF OpInv, OperationsFollowed, OpTypeOK, operations
<1>. QED BY <1>1, HubRests DEF OpInv, OperationsFollowed

LEMMA StartKeeps ==
    ASSUME OpInv, NEW o \in Operation, StartAnswered(o) \/ StartLost(o)
    PROVE  OpInv'
<1>1. CASE StartLost(o)
  <2>1. BusyIsPolled'
    BY <1>1, PageRests DEF StartLost, operations, polls
  <2>. QED BY <1>1, <2>1, PageStep DEF StartLost, shown, polls, OpInv, OperationsFollowed, OpTypeOK
<1>2. CASE StartAnswered(o)
  <2>1. /\ UNCHANGED <<operations, answer, listed>> /\ starting' = starting \ {o}
        /\ byId' = [byId EXCEPT ![o] = "running"]
        /\ byKey' = [k \in Key |-> IF k \in KeysOf(o) THEN o ELSE byKey[k]]
        /\ poll' = [q \in Operation |-> IF q \in {o} /\ poll[q] = "none" THEN "ask" ELSE poll[q]]
    BY <1>2 DEF StartAnswered, RecordOperation, Await
  <2>2. BusyIsPolled'
    BY <2>1, OperationsAssumption
       DEF OpInv, OperationsFollowed, OpTypeOK, BusyIsPolled, KeysOf, operations, State
  <2>. QED BY <2>1, <2>2, PageStep DEF State, OpInv, OperationsFollowed, OpTypeOK
<1>. QED BY <1>1, <1>2

LEMMA ReadAnswerKeeps ==
    ASSUME OpInv, NEW o \in Operation, ReadAnswer(o)
    PROVE  OpInv'
<1>1. /\ UNCHANGED <<operations, starting, listed>>
      /\ answer' = [answer EXCEPT ![o] = NoOperation] /\ poll[o] = "read"
  BY DEF ReadAnswer, StillRuns, Succeeded, Failed, Missing
<1>2. ASSUME NEW s \in {"running", "succeeded"}, NEW next \in {"ask", "load"},
             RecordOperation(o, s), poll' = [poll EXCEPT ![o] = next]
      PROVE  OpInv'
  <2>1. /\ byId' = [byId EXCEPT ![o] = s]
        /\ byKey' = [k \in Key |-> IF k \in KeysOf(o) THEN o ELSE byKey[k]]
    BY <1>2 DEF RecordOperation
  <2>2. BusyIsPolled'
    BY <1>1, <1>2, <2>1, OperationsAssumption
       DEF OpInv, OperationsFollowed, OpTypeOK, BusyIsPolled, KeysOf, operations, State
  <2>. QED BY <1>1, <1>2, <2>1, <2>2, PageStep DEF State, OpInv, OperationsFollowed, OpTypeOK
<1>3. CASE Failed(o)
  <2>1. /\ byId' = [byId EXCEPT ![o] = NoOperation]
        /\ byKey' = [k \in Key |-> IF k \in KeysOf(o) THEN NoOperation ELSE byKey[k]]
        /\ poll' = [poll EXCEPT ![o] = "close"]
    BY <1>3 DEF Failed
  <2>2. BusyIsPolled'
    BY <1>1, <2>1 DEF OpInv, OperationsFollowed, OpTypeOK, BusyIsPolled, KeysOf, operations
  <2>. QED BY <1>1, <2>1, <2>2, PageStep DEF OpInv, OperationsFollowed, OpTypeOK
<1>4. CASE Missing(o)
  <2>1. BusyIsPolled'
    BY <1>1, <1>4, PageRests DEF Missing, operations, OpInv, OperationsFollowed, OpTypeOK
  <2>. QED BY <1>1, <1>4, <2>1, PageStep DEF Missing, shown, OpInv, OperationsFollowed, OpTypeOK
<1>. QED BY <1>2, <1>3, <1>4 DEF ReadAnswer, StillRuns, Succeeded

LEMMA PollKeeps ==
    ASSUME OpInv, NEW o \in Operation, PollBreaks(o) \/ LoadFails(o)
    PROVE  OpInv'
<1>1. PICK next \in {"close", "refresh"} :
        /\ poll' = [poll EXCEPT ![o] = next]
        /\ UNCHANGED <<operations, starting, shown, answer, listed>>
  BY DEF PollBreaks, LoadFails
<1>2. BusyIsPolled'
  BY <1>1, PageRests DEF operations, OpInv, OperationsFollowed, OpTypeOK
<1>. QED BY <1>1, <1>2, PageStep DEF shown, OpInv, OperationsFollowed, OpTypeOK

\* What a poll clears it has shown, with every key: nothing of it stays.
LEMMA CloseKeeps ==
    ASSUME OpInv, NEW o \in Operation, Refreshed(o) \/ Close(o)
    PROVE  OpInv'
<1>1. /\ UNCHANGED <<operations, starting, answer, listed>>
      /\ \E next \in {"close", "none"} : poll' = [poll EXCEPT ![o] = next]
      /\ ClearOperation(o) \/ (byId[o] = NoOperation /\ UNCHANGED shown)
  BY DEF Refreshed, Close
<1>2. /\ byId' \in [Operation -> State \cup {NoOperation}]
      /\ byKey' \in [Key -> Operation \cup {NoOperation}]
  BY <1>1 DEF ClearOperation, shown, OpInv, OperationsFollowed, OpTypeOK
<1>3. BusyIsPolled'
  <2>1. ASSUME NEW k \in Key, byKey'[k] # NoOperation
        PROVE  byKey'[k] = byKey[k] /\ byKey[k] # o /\ byId'[byKey[k]] = byId[byKey[k]]
    <3>1. byKey[k] \in Operation \cup {NoOperation}
      BY DEF OpInv, OperationsFollowed, OpTypeOK
    <3>2. CASE ClearOperation(o)
      <4>1. byKey'[k] = byKey[k] /\ byKey[k] # o
        BY <2>1, <3>2 DEF ClearOperation
      <4>. QED BY <2>1, <3>1, <3>2, <4>1
               DEF ClearOperation, OpInv, OperationsFollowed, OpTypeOK
    <3>3. CASE byId[o] = NoOperation /\ UNCHANGED shown
      <4>1. byKey'[k] = byKey[k] /\ byId' = byId
        BY <3>3 DEF shown
      <4>. QED BY <2>1, <3>3, <4>1 DEF OpInv, OperationsFollowed, BusyIsPolled
    <3>. QED BY <1>1, <3>2, <3>3
  <2>2. \A q \in Operation : q # o => poll'[q] = poll[q]
    BY <1>1 DEF OpInv, OperationsFollowed, OpTypeOK
  <2>. QED BY <1>1, <2>1, <2>2
           DEF OpInv, OperationsFollowed, OpTypeOK, BusyIsPolled, KeysOf, operations
<1>4. poll' \in [Operation -> {"none", "ask", "read", "load", "refresh", "close"}]
  BY <1>1 DEF OpInv, OperationsFollowed, OpTypeOK
<1>. QED BY <1>1, <1>2, <1>3, <1>4, PageStep DEF OpInv, OperationsFollowed, OpTypeOK

\* A list that is applied shows what ran, and has it polled.
LEMMA LoadKeeps ==
    ASSUME OpInv, NEW l \in Load, LoadOperations(l)
    PROVE  OpInv'
<1>1. /\ UNCHANGED <<operations, starting, answer>>
      /\ listed' = [listed EXCEPT ![l] = NotListed]
      /\ poll' = [o \in Operation |->
                    IF o = l THEN "refresh"
                    ELSE IF o \in listed[l] /\ poll[o] = "none" THEN "ask" ELSE poll[o]]
      /\ byId' = [o \in Operation |-> IF o \in listed[l] THEN "running" ELSE NoOperation]
      /\ listed[l] # NotListed
  BY DEF LoadOperations, Loaded
<1>2. listed[l] \in SUBSET Operation
  BY <1>1 DEF OpInv, OperationsFollowed, OpTypeOK
<1>. DEFINE S(k) == {o \in listed[l] : k \in KeysOf(o)}
            pick(k) == CHOOSE o \in S(k) : \A other \in S(k) : o <= other
<1>3. byKey' = [k \in Key |-> IF S(k) = {} THEN NoOperation ELSE pick(k)]
  BY DEF LoadOperations
<1>4. ASSUME NEW k \in Key, S(k) # {} PROVE pick(k) \in S(k)
  <2>1. S(k) \in SUBSET Nat
    BY <1>2, OperationsAssumption
  <2>2. \E o \in S(k) : \A other \in S(k) : o <= other
    <3>. HIDE DEF S
    <3>. QED BY <1>4, <2>1, First
  <2>. HIDE DEF S
  <2>. QED BY <2>2
<1>5. ASSUME NEW k \in Key
      PROVE  \/ byKey'[k] = NoOperation
             \/ byKey'[k] \in listed[l] /\ k \in KeysOf(byKey'[k])
  <2>1. pick(k) \in S(k) => pick(k) \in listed[l] /\ k \in KeysOf(pick(k))
    <3>. HIDE DEF pick
    <3>. QED OBVIOUS
  <2>2. byKey'[k] = IF S(k) = {} THEN NoOperation ELSE pick(k)
    <3>. HIDE DEF pick, S
    <3>. QED BY <1>3
  <2>. HIDE DEF pick, S
  <2>. QED BY <1>4, <2>1, <2>2
<1>6. byKey' = [k \in Key |-> byKey'[k]]
  <2>. HIDE DEF pick, S
  <2>. QED BY <1>3
<1>. HIDE DEF pick, S
<1>7. byKey' \in [Key -> Operation \cup {NoOperation}]
  <2>1. \A k \in Key : byKey'[k] \in Operation \cup {NoOperation}
    BY <1>2, <1>5
  <2>. QED BY <1>6, <2>1
<1>8. BusyIsPolled'
  <2>1. KeysOf(0)' = KeysOf(0) /\ \A o \in Operation : agentOf'[o] = agentOf[o]
    BY <1>1 DEF operations, KeysOf
  <2>. QED BY <1>1, <1>2, <1>5, <2>1, OperationsAssumption
           DEF BusyIsPolled, KeysOf, OpInv, OperationsFollowed, OpTypeOK, State
<1>9. /\ byId' \in [Operation -> State \cup {NoOperation}]
      /\ poll' \in [Operation -> {"none", "ask", "read", "load", "refresh", "close"}]
      /\ listed' \in [Load -> (SUBSET Operation) \cup {NotListed}]
  BY <1>1 DEF State, OpInv, OperationsFollowed, OpTypeOK
<1>. QED BY <1>1, <1>7, <1>8, <1>9, PageStep DEF OpInv, OperationsFollowed, OpTypeOK

-----------------------------------------------------------------------------
LEMMA OperationsInit == OpInit => OpInv
<1>. SUFFICES ASSUME OpInit PROVE OpInv
  OBVIOUS
<1>1. OpTypeOK
  BY OperationsAssumption DEF OpInit, OpTypeOK, State
<1>2. KeptBegun
  BY FS_EmptySet DEF OpInit, KeptBegun
<1>3. BusyIsPolled /\ KeptForItsTime /\ OneOperation
  BY DEF OpInit, BusyIsPolled, KeptForItsTime, OneOperation, Running
<1>. QED BY <1>1, <1>2, <1>3 DEF OpInv, OperationsFollowed

LEMMA OperationsStep == OpInv /\ [OpNext]_opVars => OpInv'
<1>. SUFFICES ASSUME OpInv, [OpNext]_opVars PROVE OpInv'
  OBVIOUS
<1>1. CASE OpNext
  BY <1>1, RegisterKeeps, EndKeeps, GetKeeps, StartKeeps, ReadAnswerKeeps, PollKeeps,
     CloseKeeps, ListKeeps, LoadKeeps, TickKeeps DEF OpNext
<1>2. CASE UNCHANGED opVars
  <2>1. BusyIsPolled'
    BY <1>2, PageRests DEF opVars, operations, polls
  <2>. QED BY <1>2, <2>1, PageStep
           DEF opVars, shown, polls, OpInv, OperationsFollowed, OpTypeOK
<1>. QED BY <1>1, <1>2

\* However late answers and lists reach the page, what it shows as busy it asks about;
\* the hub has every operation that runs, one per agent, and what ended for as long as
\* it promises: an invariant that is inductive with the finiteness of what has begun
\* (agents/operations.rs, state/agent.store.ts).
THEOREM OperationsFollowedHolds == OpSpec => []OperationsFollowed
<1>1. OpInv => OperationsFollowed
  BY DEF OpInv
<1>. QED BY <1>1, OperationsInit, OperationsStep, PTL DEF OpSpec

-----------------------------------------------------------------------------
(* The catalog of the registry.  A request judges a document when it reads *)
(* or fetches it and keeps it steps later, when others have kept theirs:   *)
(* the invariant carries the judgement along with the document in hand.    *)
(* An accepted entry is the only one of its id, so a plan names it.        *)

CatalogSpec == RcInit /\ [][RcNext]_rcVars

Steps == {"rest", "loaded", "fetch", "write", "keep", "failed"}
RequestTyped ==
    /\ browse \in [Visitor -> [step : Steps, for : Purposes, doc : Document \cup {Unread}]]
    /\ plan = [b \in Visitor |-> plan[b]]

\* What a request is about to put on disk or in memory it has judged.
InHandJudged ==
    \A b \in Visitor :
        /\ browse[b].step = "loaded" => Parses(browse[b].doc)
        /\ browse[b].step \in {"write", "keep"} => UsableDocument(browse[b].doc)

CatalogInv == RcTypeOK /\ RequestTyped /\ InHandJudged /\ PlansFit

\* A planned installation that fits its catalog.
Fits(p) ==
    \E e \in Accepted(p.doc) :
        /\ e.id = p.id
        /\ \A j, k \in DOMAIN p.doc.entries :
            p.doc.entries[j].id = e.id /\ p.doc.entries[k].id = e.id => j = k
        /\ e[p.kind] = IF p.kind = "binary" THEN "here" ELSE "pinned"

\* An entry is accepted when its id occurs once.
LEMMA AcceptedOnce ==
    ASSUME NEW d, NEW e \in Accepted(d), NEW j \in DOMAIN d.entries, NEW k \in DOMAIN d.entries,
           d.entries[j].id = e.id, d.entries[k].id = e.id
    PROVE  j = k
BY DEF Accepted, RejectedEntry

\* What is selected and pinned is a binary for this host or an exact version.
LEMMA SelectedFits ==
    ASSUME NEW e, NEW preferred \in Kinds \cup {"any"},
           Select(e, preferred) # "none", Pinned(e, Select(e, preferred))
    PROVE  e[Select(e, preferred)] = IF Select(e, preferred) = "binary" THEN "here" ELSE "pinned"
<1>. DEFINE chosen == Select(e, preferred)
<1>1. chosen = "binary" => e.binary = "here"
  BY DEF Select, Kinds
<1>2. chosen # "binary" => e[chosen] = "pinned"
  BY DEF Pinned
<1>. QED BY <1>1, <1>2

\* A request that ends decides on an installation that fits, or on none.
LEMMA ConclusionFits ==
    ASSUME CatalogInv, NEW b \in Visitor, NEW purpose, NEW doc, ConcludesWith(b, purpose, doc)
    PROVE  RequestTyped' /\ InHandJudged' /\ PlansFit'
<1>1. browse' = [browse EXCEPT ![b] = Resting]
  BY DEF ConcludesWith, Concludes, Set
<1>2. Resting \in [step : Steps, for : Purposes, doc : Document \cup {Unread}]
  BY DEF Resting, Steps, Purposes
<1>3. \/ plan' = plan
      \/ \E p : plan' = [plan EXCEPT ![b] = p] /\ (p # NoPlan => Fits(p))
  <2>1. CASE purpose = "install" /\ doc # Unread /\ Accepted(doc) # {}
    <3>1. PICK e \in Accepted(doc), preferred \in Kinds \cup {"any"} :
            LET chosen == Select(e, preferred) IN
            plan' = [plan EXCEPT ![b] =
                IF chosen = "none" \/ ~Pinned(e, chosen) THEN NoPlan
                ELSE [doc |-> doc, id |-> e.id, kind |-> chosen]]
      BY <2>1 DEF ConcludesWith, Concludes
    <3>. DEFINE chosen == Select(e, preferred)
                q == [doc |-> doc, id |-> e.id, kind |-> chosen]
                p == IF chosen = "none" \/ ~Pinned(e, chosen) THEN NoPlan ELSE q
    <3>2. plan' = [plan EXCEPT ![b] = p]
      BY <3>1
    <3>3. ASSUME chosen # "none", Pinned(e, chosen) PROVE Fits(q)
      <4>1. e[chosen] = IF chosen = "binary" THEN "here" ELSE "pinned"
        BY <3>3, SelectedFits
      <4>2. q.doc = doc /\ q.id = e.id /\ q.kind = chosen
        OBVIOUS
      <4>3. \A j, k \in DOMAIN doc.entries :
                doc.entries[j].id = e.id /\ doc.entries[k].id = e.id => j = k
        BY AcceptedOnce
      <4>. HIDE DEF q, chosen
      <4>. QED BY <4>1, <4>2, <4>3 DEF Fits
    <3>4. p # NoPlan => Fits(p)
      <4>. HIDE DEF q, chosen
      <4>. QED BY <3>3
    <3>. HIDE DEF p
    <3>. QED BY <3>2, <3>4
  <2>2. CASE ~(purpose = "install" /\ doc # Unread /\ Accepted(doc) # {})
    BY <2>2 DEF ConcludesWith, Concludes
  <2>. QED BY <2>1, <2>2
<1>4. plan = [c \in Visitor |-> plan[c]] /\ \A c \in Visitor : plan[c] # NoPlan => Fits(plan[c])
  BY DEF CatalogInv, RequestTyped, PlansFit, Fits
<1>5. plan' = [c \in Visitor |-> plan'[c]] /\ \A c \in Visitor : plan'[c] # NoPlan => Fits(plan'[c])
  BY <1>3, <1>4
<1>6. InHandJudged'
  <2>1. browse'[b] = Resting /\ \A c \in Visitor : c # b => browse'[c] = browse[c]
    BY <1>1 DEF CatalogInv, RequestTyped
  <2>. QED BY <2>1 DEF CatalogInv, InHandJudged, Resting
<1>7. RequestTyped'
  BY <1>1, <1>2, <1>5 DEF CatalogInv, RequestTyped
<1>. QED BY <1>5, <1>6, <1>7 DEF PlansFit, Fits

\* Other steps keep what is planned and move one request.
LEMMA MovesKeep ==
    ASSUME CatalogInv, NEW b \in Visitor, NEW step \in Steps, NEW purpose \in Purposes,
           NEW doc \in Document \cup {Unread},
           browse' = [browse EXCEPT ![b] = [step |-> step, for |-> purpose, doc |-> doc]],
           plan' = plan,
           step = "loaded" => Parses(doc),
           step \in {"write", "keep"} => UsableDocument(doc)
    PROVE  RequestTyped' /\ InHandJudged' /\ PlansFit'
BY DEF CatalogInv, RequestTyped, InHandJudged, PlansFit

LEMMA CatalogMoves ==
    ASSUME CatalogInv, [RcNext]_rcVars
    PROVE  /\ CatalogInv'
           /\ HasAgents(disk) => HasAgents(disk')
           /\ deaths' = deaths /\ Parses(memory) => Parses(memory')
<1>. DEFINE Good == /\ CatalogInv'
                    /\ HasAgents(disk) => HasAgents(disk')
                    /\ deaths' = deaths /\ Parses(memory) => Parses(memory')
<1>1. ASSUME NEW b \in Visitor, NEW p \in Purposes, FromMemory(b, p) PROVE Good
  <2>1. RequestTyped' /\ InHandJudged' /\ PlansFit'
    BY <1>1, ConclusionFits DEF FromMemory
  <2>. QED BY <1>1, <2>1 DEF FromMemory, CatalogInv, RcTypeOK, RequestTyped
<1>2. ASSUME NEW b \in Visitor, NEW p \in Purposes, ReadCache(b, p) PROVE Good
  <2>. DEFINE step == IF Parses(disk) THEN "loaded" ELSE "fetch"
  <2>1. browse' = [browse EXCEPT ![b] = [step |-> step, for |-> p, doc |-> disk]] /\ step \in Steps
        /\ UNCHANGED <<online, memory, disk, plan, deaths>> /\ (step = "loaded" => Parses(disk))
        /\ step \notin {"write", "keep"}
    BY <1>2 DEF ReadCache, Set, Steps
  <2>. HIDE DEF step
  <2>2. RequestTyped' /\ InHandJudged' /\ PlansFit'
    BY <2>1, MovesKeep DEF CatalogInv, RcTypeOK
  <2>. QED BY <2>1, <2>2 DEF CatalogInv, RcTypeOK, RequestTyped
<1>3. ASSUME NEW b \in Visitor, KeepLoaded(b) \/ KeepFetched(b) PROVE Good
  <2>1. /\ memory' = browse[b].doc /\ ConcludesWith(b, browse[b].for, browse[b].doc)
        /\ UNCHANGED <<online, disk, deaths>> /\ browse[b].step \in {"loaded", "keep"}
    BY <1>3 DEF KeepLoaded, KeepFetched
  <2>2. Parses(memory') /\ memory' \in Document \cup {Unread}
    BY <2>1 DEF CatalogInv, RequestTyped, InHandJudged, UsableDocument
  <2>3. RequestTyped' /\ InHandJudged' /\ PlansFit'
    BY <2>1, ConclusionFits
  <2>. QED BY <2>1, <2>2, <2>3 DEF CatalogInv, RcTypeOK, RequestTyped
<1>4. ASSUME NEW b \in Visitor, Refresh(b) PROVE Good
  <2>1. browse' = [browse EXCEPT ![b] =
                        [step |-> "fetch", for |-> browse[b].for, doc |-> browse[b].doc]]
        /\ UNCHANGED <<online, memory, disk, plan, deaths>>
    <3>1. browse[b] \in [step : Steps, for : Purposes, doc : Document \cup {Unread}]
      BY DEF CatalogInv, RequestTyped
    <3>2. [browse[b] EXCEPT !.step = "fetch"] =
            [step |-> "fetch", for |-> browse[b].for, doc |-> browse[b].doc]
      BY <3>1
    <3>. QED BY <1>4, <3>2 DEF Refresh
  <2>2. RequestTyped' /\ InHandJudged' /\ PlansFit'
    BY <2>1, MovesKeep DEF CatalogInv, RequestTyped, Steps
  <2>. QED BY <2>1, <2>2 DEF CatalogInv, RcTypeOK, RequestTyped
<1>5. ASSUME NEW b \in Visitor, Fetched(b) \/ FetchFails(b) PROVE Good
  <2>1. PICK step \in {"write", "failed"}, doc \in Document \cup {Unread} :
            /\ browse' = [browse EXCEPT ![b] = [step |-> step, for |-> browse[b].for, doc |-> doc]]
            /\ UNCHANGED <<online, memory, disk, plan, deaths>>
            /\ step = "write" => UsableDocument(doc)
    BY <1>5 DEF Fetched, FetchFails, Goes, Set, CatalogInv, RcTypeOK
  <2>2. RequestTyped' /\ InHandJudged' /\ PlansFit'
    BY <2>1, MovesKeep DEF CatalogInv, RequestTyped, Steps
  <2>. QED BY <2>1, <2>2 DEF CatalogInv, RcTypeOK, RequestTyped
<1>6. ASSUME NEW b \in Visitor, WriteCache(b) PROVE Good
  <2>1. /\ browse' = [browse EXCEPT ![b] =
                        [step |-> "keep", for |-> browse[b].for, doc |-> browse[b].doc]]
        /\ disk' \in {disk, browse[b].doc} /\ UNCHANGED <<online, memory, plan, deaths>>
        /\ browse[b].step = "write"
    BY <1>6 DEF WriteCache, Goes, Set, Outcomes
  <2>2. UsableDocument(browse[b].doc) /\ browse[b].doc \in Document \cup {Unread}
    BY <2>1 DEF CatalogInv, InHandJudged, RequestTyped
  <2>3. RequestTyped' /\ InHandJudged' /\ PlansFit'
    BY <2>1, <2>2, MovesKeep DEF CatalogInv, RequestTyped, Steps
  <2>. QED BY <2>1, <2>2, <2>3 DEF CatalogInv, RcTypeOK, RequestTyped, HasAgents, UsableDocument
<1>7. ASSUME NEW b \in Visitor, FallBack(b) PROVE Good
  <2>1. PICK step \in {"loaded", "rest"}, p \in Purposes, doc \in Document \cup {Unread} :
            /\ browse' = [browse EXCEPT ![b] = [step |-> step, for |-> p, doc |-> doc]]
            /\ UNCHANGED <<online, memory, disk, plan, deaths>>
            /\ step = "loaded" => Parses(doc)
    BY <1>7 DEF FallBack, Goes, Set, Resting, Purposes, CatalogInv, RcTypeOK
  <2>2. RequestTyped' /\ InHandJudged' /\ PlansFit'
    BY <2>1, MovesKeep DEF Steps
  <2>. QED BY <2>1, <2>2 DEF CatalogInv, RcTypeOK, RequestTyped
<1>8. ASSUME NEW d \in Document, Publishes(d) PROVE Good
  BY <1>8 DEF Publishes, CatalogInv, RcTypeOK, RequestTyped, InHandJudged, PlansFit
<1>9. CASE Dies
  <2>1. /\ deaths' = deaths + 1 /\ deaths < MaxDeath /\ memory' = Unread
        /\ browse' = [b \in Visitor |-> Resting] /\ plan' = [b \in Visitor |-> NoPlan]
        /\ UNCHANGED online
    BY <1>9 DEF Dies
  <2>2. PICK doc \in Document \cup {Unread} :
            disk' \in {disk, doc} /\ (disk' # disk => UsableDocument(doc))
    BY <1>9 DEF Dies, Outcomes, CatalogInv, RcTypeOK, InHandJudged, RequestTyped
  <2>3. RequestTyped' /\ InHandJudged' /\ PlansFit'
    BY <2>1 DEF RequestTyped, InHandJudged, PlansFit, Resting, Steps, Purposes
  <2>4. deaths' \in 0 .. MaxDeath /\ deaths' # deaths
    BY <2>1, CatalogAssumption DEF CatalogInv, RcTypeOK
  <2>5. RcTypeOK'
    BY <2>1, <2>2, <2>4 DEF CatalogInv, RcTypeOK, Resting, Purposes
  <2>. QED BY <2>2, <2>3, <2>4, <2>5 DEF CatalogInv, HasAgents, UsableDocument
<1>10. CASE UNCHANGED rcVars
  BY <1>10 DEF rcVars, CatalogInv, RcTypeOK, RequestTyped, InHandJudged, PlansFit
<1>. QED BY <1>1, <1>2, <1>3, <1>4, <1>5, <1>6, <1>7, <1>8, <1>9, <1>10 DEF RcNext

LEMMA CatalogInit == RcInit => CatalogInv
BY CatalogAssumption DEF RcInit, CatalogInv, RcTypeOK, RequestTyped, InHandJudged, PlansFit,
   Resting, Steps, Purposes

\* The inductive invariant of the catalog: types, documents in hand that were judged
\* before they are kept, and plans that fit (agents/registry/client.rs, install.rs).
THEOREM CatalogInvHolds == CatalogSpec => []CatalogInv
BY CatalogInit, CatalogMoves, PTL DEF CatalogSpec

\* Whatever the registry publishes and however requests interleave, what is installed
\* was accepted, runs here and is pinned (manifest.rs, install.rs).
THEOREM PlansFitHolds == CatalogSpec => []PlansFit
<1>1. CatalogInv => PlansFit
  BY DEF CatalogInv
<1>. QED BY <1>1, CatalogInvHolds, PTL

\* No failure, bad document, race of refreshes or crash loses a catalog with agents
\* from the disk, nor a live hub the catalog in its memory (client.rs:3-6).
THEOREM GoodCatalogStaysHolds == CatalogSpec => GoodCatalogStays
<1>1. CatalogInv /\ [RcNext]_rcVars =>
        [/\ HasAgents(disk) => HasAgents(disk')
         /\ deaths' = deaths /\ Parses(memory) => Parses(memory')]_rcVars
  BY CatalogMoves
<1>. QED BY <1>1, CatalogInvHolds, PTL DEF CatalogSpec, GoodCatalogStays
=============================================================================
