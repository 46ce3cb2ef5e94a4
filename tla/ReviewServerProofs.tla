------------------------- MODULE ReviewServerProofs -------------------------
(***************************************************************************)
(* What TLAPS proves about ReviewServer.  The server writes nothing, so a  *)
(* behaviour of the server and the writers is one of the writers, and the  *)
(* theorems of RunPublicationProofs are what the server relies on.         *)
(***************************************************************************)
EXTENDS ReviewServer, RunPublicationProofs

\* What the packages of loaded runs look like, whatever the writers do.
LoadedAreSealed ==
    \A e \in registry.entries : dest[e.run_id] = [state |-> "sealed", digest |-> e.digest]

\* What a request knows.  Its runs are loaded ones, what it has read is loaded,
\* and a list has read all the loaded runs it does not still have to read.
RequestKnowledge(c) ==
    /\ ~Idle(c) => /\ rest[c] \subseteq Ids(frozen)
                   /\ got[c] \subseteq frozen
                   /\ kind[c] = "list" => \A e \in frozen : e.run_id \in rest[c] \/ e \in got[c]
    /\ step[c] = "answering" => rest[c] = {}
    /\ step[c] = "reading" => at[c] \in rest[c]
    /\ ~Idle(c) => result[c] # "failed"
    /\ server = "up" => shown[c] \subseteq frozen

ServerInv ==
    /\ ReviewTypeOK
    /\ frozen \subseteq registry.entries
    /\ \A c \in Client : ~Idle(c) => server = "up"
    /\ \A c \in Client : RequestKnowledge(c)
    /\ ShownIsRegistered
    /\ OnlySizeFails

\* The server changes nothing the writers use.
LEMMA ServerWritesNothing == [ReviewNext]_reviewVars => [Next]_vars
<1>1. CASE UNCHANGED reviewVars
    BY <1>1 DEF reviewVars
<1>2. CASE Publishing
    BY <1>2 DEF Publishing
<1>3. CASE StartServer \/ StopServer
    BY <1>3 DEF StartServer, StopServer
<1>4. ASSUME NEW c \in Client, Request(c) PROVE UNCHANGED vars
    BY <1>4 DEF Request, AskList, AskRun, AskUnknown, Ask, Locate, Read, Answer
<1>. QED BY <1>1, <1>2, <1>3, <1>4 DEF ReviewNext

\* A behaviour of the server and the writers is a behaviour of the writers.
LEMMA WritersBehave == ReviewSpec => Spec
<1>1. ReviewInit => Init
    BY DEF ReviewInit
<1>. QED BY <1>1, ServerWritesNothing, PTL DEF ReviewSpec, Spec

\* The packages of registered runs are sealed, with the server as without it.
LEMMA WritersInvariance == ReviewSpec => []IInv
BY WritersBehave, Invariance, PTL

\* A loaded run is served, unless its package is too large: the entry is still
\* registered, so the package is in place and has the loaded digest.
LEMMA LoadedIsServed ==
    ASSUME IInv, ServerInv, NEW r \in Ids(frozen)
    PROVE  /\ Exists(dest[r])
           /\ [run_id |-> r, digest |-> dest[r].digest] \in frozen
           /\ ~Served(r) => \E e \in registry.entries : e.run_id = r /\ e.digest \in Oversized
<1>1. PICK e \in frozen : e.run_id = r
    BY DEF Ids
<1>2. e \in registry.entries /\ e \in Entry
    BY <1>1 DEF ServerInv, ReviewTypeOK
<1>3. dest[r] = [state |-> "sealed", digest |-> e.digest]
    BY <1>1, <1>2 DEF IInv, RegisteredRunsAreSealed
<1>4. e = [run_id |-> r, digest |-> e.digest]
    BY <1>1, <1>2 DEF Entry
<1>5. dest[r].digest = e.digest /\ dest[r].state = "sealed"
    BY <1>3
<1>. QED BY <1>1, <1>2, <1>4, <1>5 DEF Served, Exists

\* A registered run has one entry.
LEMMA OneEntryPerRun ==
    ASSUME IInv, NEW e \in registry.entries, NEW f \in registry.entries, e.run_id = f.run_id
    PROVE  e = f
<1>1. e \in Entry /\ f \in Entry
    BY DEF IInv, TypeOK, File
<1>2. /\ dest[e.run_id] = [state |-> "sealed", digest |-> e.digest]
      /\ dest[e.run_id] = [state |-> "sealed", digest |-> f.digest]
    BY DEF IInv, RegisteredRunsAreSealed
<1>3. e.digest = f.digest
    BY ONLY <1>2
<1>. QED BY <1>1, <1>3 DEF Entry

\* A new request starts with nothing read, and with the loaded runs to read.
LEMMA AskStep ==
    ASSUME IInv, ServerInv, NEW c \in Client, NEW what \in {"list", "run"},
           NEW ids \in SUBSET Ids(frozen), what = "list" => ids = Ids(frozen),
           Ask(c, what, ids)
    PROVE  ServerInv'
<1>1. ReviewTypeOK'
  <2>1. ids \subseteq RunId
      BY DEF ServerInv, ReviewTypeOK, Ids, Entry
  <2>. QED BY <2>1 DEF ServerInv, ReviewTypeOK, Ask, Onwards
<1>2. \A b \in Client : RequestKnowledge(b)'
  <2>1. ASSUME NEW b \in Client, b # c PROVE RequestKnowledge(b)'
      BY <2>1 DEF ServerInv, ReviewTypeOK, RequestKnowledge, Ask, Onwards, Idle, Ids
  <2>2. RequestKnowledge(c)'
      BY DEF ServerInv, ReviewTypeOK, RequestKnowledge, Ask, Onwards, Idle, Ids
  <2>. QED BY <2>1, <2>2
<1>3. (\A b \in Client : ~Idle(b) => server = "up")'
    BY DEF ServerInv, ReviewTypeOK, Ask, Onwards, Idle
<1>4. ShownIsRegistered'
    BY DEF ServerInv, ReviewTypeOK, Ask, ShownIsRegistered, vars
<1>5. OnlySizeFails'
    BY DEF ServerInv, ReviewTypeOK, Ask, OnlySizeFails, vars
<1>6. (frozen \subseteq registry.entries)'
    BY DEF ServerInv, Ask, vars
<1>. QED BY <1>1, <1>2, <1>3, <1>4, <1>5, <1>6 DEF ServerInv

\* A step of a writer: entries are added at most, the server's memory is as it was.
LEMMA PublishingStep == ASSUME IInv, ServerInv, Publishing PROVE ServerInv'
<1>1. registry.entries \subseteq registry'.entries
    BY PublishedStep DEF Publishing, KeepsPublished
<1>2. UNCHANGED <<server, frozen, step, kind, rest, at, got, result, shown>>
    BY DEF Publishing, requests
<1>3. ReviewTypeOK'
    BY <1>2 DEF ServerInv, ReviewTypeOK
<1>4. ASSUME NEW c \in Client PROVE RequestKnowledge(c)'
    BY <1>2 DEF ServerInv, RequestKnowledge, Idle
<1>5. ShownIsRegistered' /\ OnlySizeFails'
    BY <1>1, <1>2 DEF ServerInv, ShownIsRegistered, OnlySizeFails
<1>. QED BY <1>1, <1>2, <1>3, <1>4, <1>5 DEF ServerInv, Idle

\* A server that starts loads all that any client was ever shown; one that stops
\* leaves no request behind.
LEMMA StartStopStep == ASSUME IInv, ServerInv, StartServer \/ StopServer PROVE ServerInv'
<1>1. CASE StartServer
  <2>1. \A c \in Client : Idle(c)
      BY <1>1 DEF ServerInv, StartServer
  <2>2. ReviewTypeOK'
      BY <1>1 DEF ServerInv, ReviewTypeOK, StartServer, requests, IInv, TypeOK, File
  <2>. QED BY <1>1, <2>1, <2>2 DEF ServerInv, StartServer, requests, vars, RequestKnowledge, Idle,
              ShownIsRegistered, OnlySizeFails
<1>2. CASE StopServer
    BY <1>2 DEF ServerInv, ReviewTypeOK, StopServer, vars, RequestKnowledge, Idle,
       ShownIsRegistered, OnlySizeFails
<1>. QED BY <1>1, <1>2

\* The steps of a request, after it was asked.
LEMMA RequestStep ==
    ASSUME IInv, ServerInv, NEW c \in Client, Request(c)
    PROVE  ServerInv'
<1>1. CASE AskList(c)
    BY <1>1, AskStep DEF AskList
<1>2. ASSUME NEW r \in RunId, AskRun(c, r) PROVE ServerInv'
    BY <1>2, AskStep DEF AskRun
<1>3. ASSUME NEW r \in RunId, AskUnknown(c, r) PROVE ServerInv'
    BY <1>3 DEF ServerInv, ReviewTypeOK, AskUnknown, End, vars, RequestKnowledge, Idle,
       ShownIsRegistered, OnlySizeFails
<1>4. ASSUME NEW r \in RunId, Locate(c, r) PROVE ServerInv'
  <2>1. r \in Ids(frozen) /\ step[c] = "locating"
      BY <1>4 DEF ServerInv, Locate, RequestKnowledge, Idle
  <2>2. Exists(dest[r])
      BY <2>1, LoadedIsServed
  <2>. QED BY <1>4, <2>1, <2>2 DEF ServerInv, ReviewTypeOK, Locate, vars, RequestKnowledge, Idle,
              ShownIsRegistered, OnlySizeFails
<1>5. CASE Read(c)
  <2> DEFINE e == [run_id |-> at[c], digest |-> dest[at[c]].digest]
  <2>1. at[c] \in rest[c] /\ at[c] \in Ids(frozen) /\ step[c] = "reading" /\ ~Idle(c)
      BY <1>5 DEF ServerInv, Read, RequestKnowledge, Idle
  <2>2. e \in frozen /\ e.run_id = at[c]
      BY <2>1, LoadedIsServed
  <2>3. \A f \in frozen : f.run_id = at[c] => f = e
      BY <2>2, OneEntryPerRun DEF ServerInv
  <2>4. CASE Served(at[c])
    <3> USE <1>5, <2>4 DEF Read
    <3>1. /\ got' = [got EXCEPT ![c] = got[c] \cup {e}]
          /\ rest' = [rest EXCEPT ![c] = rest[c] \ {at[c]}]
          /\ step' = [step EXCEPT ![c] = IF rest[c] \ {at[c]} = {} THEN "answering" ELSE "locating"]
          /\ UNCHANGED <<vars, server, frozen, kind, at, result, shown>>
        BY DEF Onwards
    <3>. HIDE DEF e
    <3>2. ReviewTypeOK'
        BY <2>2, <3>1 DEF ServerInv, ReviewTypeOK
    <3>3. ASSUME NEW b \in Client, b # c PROVE RequestKnowledge(b)'
        BY <3>1, <3>3 DEF ServerInv, ReviewTypeOK, RequestKnowledge, Idle
    <3>4. RequestKnowledge(c)'
        BY <2>1, <2>2, <2>3, <3>1 DEF ServerInv, ReviewTypeOK, RequestKnowledge, Idle
    <3>5. ShownIsRegistered' /\ OnlySizeFails'
        BY <2>2, <3>1 DEF ServerInv, ReviewTypeOK, ShownIsRegistered, OnlySizeFails, vars
    <3>6. (\A b \in Client : ~Idle(b) => server = "up")' /\ (frozen \subseteq registry.entries)'
        BY <2>1, <3>1 DEF ServerInv, ReviewTypeOK, Idle, vars
    <3>. QED BY <3>2, <3>3, <3>4, <3>5, <3>6 DEF ServerInv
  <2>5. CASE ~Served(at[c])
    <3>1. \E f \in registry.entries : f.run_id = at[c] /\ f.digest \in Oversized
        BY <2>1, <2>5, LoadedIsServed
    <3>2. /\ step' = [step EXCEPT ![c] = "idle"] /\ result' = [result EXCEPT ![c] = "failed"]
          /\ UNCHANGED <<vars, server, frozen, kind, rest, at, got, shown>>
        BY <1>5, <2>5 DEF Read, End
    <3>. QED BY <3>1, <3>2 DEF ServerInv, ReviewTypeOK, vars, RequestKnowledge, Idle,
                ShownIsRegistered, OnlySizeFails
  <2>. QED BY <2>4, <2>5
<1>6. CASE Answer(c)
    BY <1>6 DEF ServerInv, ReviewTypeOK, Answer, End, vars, RequestKnowledge, Idle,
       ShownIsRegistered, OnlySizeFails
<1>. QED BY <1>1, <1>2, <1>3, <1>4, <1>5, <1>6 DEF Request

\* ServerInv is an invariant of the server and the writers together.
LEMMA ServerInvariance == ReviewSpec => []ServerInv
<1>1. ReviewInit => ServerInv
    BY DEF ReviewInit, ServerInv, ReviewTypeOK, RequestKnowledge, Idle, ShownIsRegistered,
       OnlySizeFails
<1>2. IInv /\ ServerInv /\ UNCHANGED reviewVars => ServerInv'
    BY DEF reviewVars, requests, vars, ServerInv, ReviewTypeOK, RequestKnowledge, Idle,
       ShownIsRegistered, OnlySizeFails
<1>3. IInv /\ ServerInv /\ ReviewNext => ServerInv'
    BY PublishingStep, StartStopStep, RequestStep DEF ReviewNext
<1>. QED BY <1>1, <1>2, <1>3, WritersInvariance, PTL DEF ReviewSpec

\* Every variable of the server keeps its type, with any number of clients.
THEOREM ReviewTypeCorrect == ReviewSpec => []ReviewTypeOK
<1>1. ServerInv => ReviewTypeOK
    BY DEF ServerInv
<1>. QED BY <1>1, ServerInvariance, PTL

\* No writer, failing or dying at any step, makes a request for a loaded run fail:
\* only a package over the size limit of the server does.
THEOREM OnlySizeFailsAlways == ReviewSpec => []OnlySizeFails
<1>1. ServerInv => OnlySizeFails
    BY DEF ServerInv
<1>. QED BY <1>1, ServerInvariance, PTL

\* What a client was shown stays registered, with the digest it was shown with.
THEOREM ShownStaysRegistered == ReviewSpec => []ShownIsRegistered
<1>1. ServerInv => ShownIsRegistered
    BY DEF ServerInv
<1>. QED BY <1>1, ServerInvariance, PTL

\* No list is missing a run of an earlier list, restarts of the server included.
THEOREM ListsGrow == ReviewSpec => NoRunDisappears
<1> DEFINE Grows == \A c \in Client : shown[c] \subseteq shown'[c]
<1>1. ASSUME ServerInv, NEW c \in Client, Answer(c) PROVE Grows
  <2>1. CASE kind[c] = "list"
    <3>1. got[c] = frozen /\ shown[c] \subseteq frozen
        BY <1>1, <2>1 DEF ServerInv, RequestKnowledge, Answer, Idle
    <3>. QED BY <1>1, <2>1, <3>1 DEF ServerInv, ReviewTypeOK, Answer
  <2>. QED BY <1>1, <2>1 DEF Answer
<1>2. ASSUME NEW c \in Client, Request(c), ~Answer(c) PROVE Grows
    BY <1>2 DEF Request, AskList, AskRun, AskUnknown, Ask, Locate, Read
<1>3. ServerInv /\ [ReviewNext]_reviewVars => [Grows]_reviewVars
    BY <1>1, <1>2 DEF ReviewNext, Publishing, StartServer, StopServer, requests
<1>. QED BY <1>3, ServerInvariance, PTL DEF ReviewSpec, NoRunDisappears
=============================================================================
