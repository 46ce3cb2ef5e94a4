---------------------------- MODULE ReviewServer ----------------------------
(***************************************************************************)
(* The local review server, sbom_workbench/webapp.py, reading a data root  *)
(* while the packaging commands of RunPublication write to it.             *)
(*                                                                         *)
(* RegisteredRunStore reads runs.json once, when the server starts, and    *)
(* serves the runs it found until the server stops.  A request is a thread *)
(* of ThreadingHTTPServer.  It takes no lock: for each run it looks at the *)
(* directories on the path, then opens and hashes dashboard.json, and      *)
(* answers 200 only if the hash is the one it loaded.  list_runs does this *)
(* for every run, and one failure fails the whole list.                    *)
(***************************************************************************)
EXTENDS RunPublication

CONSTANTS Client,     \* browser tabs, each with one request at a time
          Nowhere,    \* no run is being looked at
          Oversized   \* packages whose dashboard.json is over MAX_DASHBOARD_BYTES

ASSUME OversizedAssumption == Oversized \subseteq Digest
ASSUME NowhereAssumption == Nowhere \notin RunId

VARIABLES server,   \* "up" while serve_forever runs
          frozen,   \* the entries RegisteredRunStore loaded
          step,     \* what the request of each client does next
          kind,     \* what was requested: the list or one run
          rest,     \* the runs still to be read for the request
          at,       \* the run whose directories have been looked at
          got,      \* the entries whose dashboards have been read and agree
          result,   \* how the last request of each client ended
          shown     \* the last list each client received

requests == <<step, kind, rest, at, got, result, shown>>
reviewVars == <<vars, server, frozen, requests>>

Ids(entries) == {e.run_id : e \in entries}
Idle(c) == step[c] = "idle"

ReviewInit ==
    /\ Init
    /\ server = "down"
    /\ frozen = {}
    /\ step = [c \in Client |-> "idle"]
    /\ kind = [c \in Client |-> "list"]
    /\ rest = [c \in Client |-> {}]
    /\ at = [c \in Client |-> Nowhere]
    /\ got = [c \in Client |-> {}]
    /\ result = [c \in Client |-> "none"]
    /\ shown = [c \in Client |-> {}]

\* Where a request stands once the runs in "left" remain to be read.
Onwards(c, left) ==
    /\ rest' = [rest EXCEPT ![c] = left]
    /\ step' = [step EXCEPT ![c] = IF left = {} THEN "answering" ELSE "locating"]

End(c, how) ==
    /\ step' = [step EXCEPT ![c] = "idle"]
    /\ result' = [result EXCEPT ![c] = how]

-----------------------------------------------------------------------------
(* The server *)

\* RegisteredRunStore._load_registry; without a readable runs.json main exits.
StartServer ==
    /\ server = "down"
    /\ Exists(registry) /\ Readable(registry)
    /\ server' = "up"
    /\ frozen' = registry.entries
    /\ UNCHANGED <<vars, requests>>

\* Ctrl-C or death.  Request threads are daemons and end with the process.
StopServer ==
    /\ server = "up"
    /\ server' = "down"
    /\ frozen' = {}
    /\ step' = [c \in Client |-> "idle"]
    /\ UNCHANGED <<vars, kind, rest, at, got, result, shown>>

-----------------------------------------------------------------------------
(* Requests *)

\* A request that reads the runs in "ids".
Ask(c, what, ids) ==
    /\ server = "up" /\ Idle(c)
    /\ kind' = [kind EXCEPT ![c] = what]
    /\ got' = [got EXCEPT ![c] = {}]
    /\ result' = [result EXCEPT ![c] = "none"]
    /\ Onwards(c, ids)
    /\ UNCHANGED <<vars, server, frozen, at, shown>>

\* GET /api/runs
AskList(c) == Ask(c, "list", Ids(frozen))

\* GET /api/runs/<run_id>
AskRun(c, r) == r \in Ids(frozen) /\ Ask(c, "run", {r})

\* 404: the run was not registered when the server started.
AskUnknown(c, r) ==
    /\ server = "up" /\ Idle(c)
    /\ r \notin Ids(frozen)
    /\ End(c, "not_registered")
    /\ UNCHANGED <<vars, server, frozen, kind, rest, at, got, shown>>

\* _registered_run_directory
Locate(c, r) ==
    /\ step[c] = "locating"
    /\ r \in rest[c]
    /\ at' = [at EXCEPT ![c] = r]
    /\ IF Exists(dest[r])
       THEN step' = [step EXCEPT ![c] = "reading"] /\ UNCHANGED result
       ELSE End(c, "failed")
    /\ UNCHANGED <<vars, server, frozen, kind, rest, got, shown>>

\* The dashboard is there, not too large, and hashes to the loaded digest.
Served(r) ==
    /\ dest[r].digest \notin Oversized
    /\ [run_id |-> r, digest |-> dest[r].digest] \in frozen

\* Faulty variant: the rest of the list is dropped when a run fails.
ReadOrSkip(c) ==
    /\ step[c] = "reading"
    /\ IF Served(at[c])
       THEN /\ got' = [got EXCEPT ![c] = @ \cup {[run_id |-> at[c], digest |-> dest[at[c]].digest]}]
            /\ Onwards(c, rest[c] \ {at[c]})
            /\ UNCHANGED result
       ELSE Onwards(c, {}) /\ UNCHANGED <<got, result>>
    /\ UNCHANGED <<vars, server, frozen, kind, at, shown>>

\* _read_regular_file and the comparison of hashes in get_run
Read(c) ==
    /\ step[c] = "reading"
    /\ IF Served(at[c])
       THEN /\ got' = [got EXCEPT ![c] = @ \cup {[run_id |-> at[c], digest |-> dest[at[c]].digest]}]
            /\ Onwards(c, rest[c] \ {at[c]})
            /\ UNCHANGED result
       ELSE End(c, "failed") /\ UNCHANGED <<got, rest>>
    /\ UNCHANGED <<vars, server, frozen, kind, at, shown>>

Answer(c) ==
    /\ step[c] = "answering"
    /\ End(c, "ok")
    /\ shown' = IF kind[c] = "list" THEN [shown EXCEPT ![c] = got[c]] ELSE shown
    /\ UNCHANGED <<vars, server, frozen, kind, rest, at, got>>

Request(c) ==
    \/ AskList(c) \/ Read(c) \/ Answer(c)
    \/ \E r \in RunId : AskRun(c, r) \/ AskUnknown(c, r) \/ Locate(c, r)

Publishing == Next /\ UNCHANGED <<server, frozen, requests>>

ReviewNext ==
    \/ Publishing
    \/ StartServer
    \/ StopServer
    \/ \E c \in Client : Request(c)

ReviewSpec == ReviewInit /\ [][ReviewNext]_reviewVars

-----------------------------------------------------------------------------
(* Properties *)

\* Every variable of the server ranges over the values the code can give it.
ReviewTypeOK ==
    /\ server \in {"down", "up"}
    /\ frozen \subseteq Entry
    /\ step \in [Client -> {"idle", "locating", "reading", "answering"}]
    /\ kind \in [Client -> {"list", "run"}]
    /\ rest \in [Client -> SUBSET RunId]
    /\ at \in [Client -> RunId \cup {Nowhere}]
    /\ got \in [Client -> SUBSET Entry]
    /\ result \in [Client -> {"none", "ok", "failed", "not_registered"}]
    /\ shown \in [Client -> SUBSET Entry]

\* Writers that publish, roll back, fail or die never make a request fail: the
\* 409 and 500 of get_run are left to packages the server is too small for.
OnlySizeFails ==
    \A c \in Client :
        result[c] = "failed" =>
            \E e \in registry.entries : e.run_id = at[c] /\ e.digest \in Oversized

\* What a client was shown is still what runs.json says, however old the list.
ShownIsRegistered == \A c \in Client : shown[c] \cup got[c] \subseteq registry.entries

\* A run that was listed once is in every later list, also when the server was
\* stopped and started in between.
NoRunDisappears == [][\A c \in Client : shown[c] \subseteq shown'[c]]_reviewVars
=============================================================================
