------------------------------- MODULE Diana --------------------------------
(***************************************************************************)
(* Diana_del as diana_debug runs it (one process, DianaInterface calling   *)
(* both servers directly) and as diana_client and diana_server do          *)
(* (blocking gRPC calls that can fail before or after the server handles   *)
(* them; both processes restart).  The constructor's arguments are chosen  *)
(* in the initial state.                                                   *)
(*                                                                         *)
(* The history variables say what the caller may expect of keyword w:      *)
(* live[w] are the documents whose insertion was stored and whose deletion *)
(* was not; w is regular while no document is inserted twice under one     *)
(* key, none is deleted that is not live, w is not searched before its     *)
(* first update without cleaning, and no call of a cleaning search fails.  *)
(***************************************************************************)
EXTENDS DianaScheme

CONSTANTS
    Settings,      \* a set of constructor arguments: remote, usehdd, clean
    MaxUpdates,    \* bound: insertions and deletions
    MaxSearches,   \* bound: searches
    MaxLosses,     \* bound: failed calls
    MaxRestarts    \* bound: process restarts

ASSUME DianaAssumption ==
    /\ "" \notin Keywords
    /\ Settings \subseteq [remote : BOOLEAN, usehdd : BOOLEAN, clean : BOOLEAN]
    /\ {MaxUpdates, MaxSearches, MaxLosses, MaxRestarts} \subseteq Nat

\* The token tree derives every leaf below n that is not left out, each once
\* (checked by DianaSearch!ListCoversWanted and AgreesWithSequential).
ASSUME LeafOrderAssumption ==
    \A n \in 0..MaxUpdates : \A D \in SUBSET (0..(n - 1)) :
        /\ DOMAIN LeafOrder(n, D) = 1..(n - Cardinality(D))
        /\ ToSet(LeafOrder(n, D)) = (0..(n - 1)) \ D

VARIABLES
    setting,      \* the constructor's arguments
    client,       \* DianaInterface and its two DianaClients
    server,       \* both DianaServers
    call,         \* the client's outstanding call, or Idle, or how it ended
    live, used,   \* history: live documents; documents with an entry under the key
    regular,      \* history: the keywords whose use was regular
    fresh,        \* history: the server started with none of this client's tokens
    answer,       \* what the last search returned
    updates, searches, losses, restarts  \* counters for the bounds

ghosts == <<live, used, regular, fresh>>
bounds == <<updates, searches, losses, restarts>>
vars == <<setting, client, server, call, live, used, regular, fresh, answer,
          updates, searches, losses, restarts>>

Idle == [kind |-> "idle"]
SetupCall == [kind |-> "setup", st |-> "sent"]
NoAnswer == [res |-> <<>>, expected |-> {}, trusted |-> FALSE]
NoDocs == [w \in Keywords |-> {}]

\* The key files may be there already (the repository ships a pair).
Init ==
    /\ setting \in Settings
    /\ \E delKey \in {"own", "saved"} : client = NewClient(delKey)
    /\ server = NewServer(IF setting.remote THEN "none" ELSE "ready")
    /\ call = IF setting.remote THEN SetupCall ELSE Idle
    /\ live = NoDocs /\ used = NoDocs
    /\ regular = Keywords
    /\ fresh = ~setting.remote
    /\ answer = NoAnswer
    /\ updates = 0 /\ searches = 0 /\ losses = 0 /\ restarts = 0

-----------------------------------------------------------------------------
\* What the server does for an update, with the history it makes.

storeInsertion(w, r) ==
    /\ server' = Insert(server, r, setting.usehdd)
    /\ live' = [live EXCEPT ![w] = @ \cup {r.doc}]
    /\ used' = [used EXCEPT ![w] = @ \cup {r.doc}]
    /\ regular' = IF r.doc \in used[w] THEN regular \ {w} ELSE regular
    /\ UNCHANGED fresh

storeDeletion(w, r) ==
    /\ server' = Delete(server, r, setting.usehdd)
    /\ live' = [live EXCEPT ![w] = @ \ {r.target[2]}]
    /\ regular' = IF r.target[2] \in live[w] THEN regular ELSE regular \ {w}
    /\ UNCHANGED <<used, fresh>>

\* Searched without cleaning, an unknown keyword is from now on stored under "",
\* the key of all such keywords.
Irregular(w) == IF ~setting.clean /\ w \notin DOMAIN client.token THEN {w} ELSE {}

\* The result of a search, and whether the caller may rely on it.
Outcome(w, res, ok) ==
    [res |-> res, expected |-> live[w], trusted |-> ok /\ fresh /\ w \in regular \ Irregular(w)]

-----------------------------------------------------------------------------
\* The client's operations.

Send(c) == call' = c /\ UNCHANGED <<server, ghosts>>

insertKeyword(w, d) ==
    LET r == Insertion(client, w, d)
    IN  /\ call = Idle
        /\ updates < MaxUpdates /\ updates' = updates + 1
        /\ client' = AfterInsertion(client, w)
        /\ \/ setting.remote /\ Send([kind |-> "insert", st |-> "sent", w |-> w, req |-> r])
           \/ ~setting.remote /\ storeInsertion(w, r) /\ UNCHANGED call
        /\ UNCHANGED <<setting, answer, searches, losses, restarts>>

deleteKeyword(w, d) ==
    LET r == Deletion(client, w, d)
    IN  /\ call = Idle
        /\ updates < MaxUpdates /\ updates' = updates + 1
        /\ client' = AfterDeletion(client, w)
        /\ \/ setting.remote /\ Send([kind |-> "delete", st |-> "sent", w |-> w, req |-> r])
           \/ ~setting.remote /\ storeDeletion(w, r) /\ UNCHANGED call
        /\ UNCHANGED <<setting, answer, searches, losses, restarts>>

\* searchKeyword of one process, from the deletions to the re-insertions.  It
\* aborts on a deletion that revokes no insertion, and may not return when no
\* entry is left.
searchKeyword(w) ==
    LET c       == LookedUp(client, w)
        key     == c.token[w]
        targets == Targets(server, c.delKey, key, Count(c.del, key))
        n       == Count(c.ins, key)
        dels    == Revoked(server, targets)
        res     == Found(server, key, n, dels)
    IN  /\ call = Idle /\ ~setting.remote
        /\ searches < MaxSearches /\ searches' = searches + 1
        /\ \/ /\ Unresolved(server, targets)
              /\ call' = [kind |-> "aborted", w |-> w]
              /\ client' = c
              /\ regular' = regular \ Irregular(w)
              /\ UNCHANGED <<server, live, used, answer>>
           \/ /\ ~Unresolved(server, targets) /\ NothingLeft(n, dels)
              /\ call' = [kind |-> "hung", w |-> w]
              /\ client' = c
              /\ regular' = regular \ Irregular(w)
              /\ UNCHANGED <<server, live, used, answer>>
           \/ /\ ~Unresolved(server, targets)
              /\ answer' = Outcome(w, res, TRUE)
              /\ regular' = regular \ Irregular(w)
              /\ IF setting.clean
                 THEN /\ client' = AfterReinsertions(c, w, res)
                      /\ server' = InsertAll(server, Reinsertions(c, w, res), setting.usehdd)
                      /\ used' = [used EXCEPT ![w] = ToSet(res)]
                 ELSE client' = c /\ UNCHANGED <<server, used>>
              /\ UNCHANGED <<call, live>>
        /\ UNCHANGED <<setting, fresh, updates, losses, restarts>>

\* searchKeyword of DianaClientRunner up to the first call.
searchDeletedKeyword(w) ==
    LET c   == LookedUp(client, w)
        key == c.token[w]
    IN  /\ call = Idle /\ setting.remote
        /\ searches < MaxSearches /\ searches' = searches + 1
        /\ client' = c
        /\ call' = [kind |-> "searchDelete", st |-> "sent", w |-> w, delKey |-> c.delKey,
                    key |-> key, n |-> Count(c.del, key), dels |-> {}, unresolved |-> FALSE]
        /\ regular' = regular \ Irregular(w)
        /\ UNCHANGED <<setting, server, live, used, fresh, answer, updates, losses, restarts>>

\* The second call.  The status of the first is not looked at: a reply that did not
\* arrive is an empty one.  A counter from a server that knows an earlier client may
\* lie outside the array of covering_list: the client dies of writing there or not.
searchInsertedKeyword ==
    LET n          == Count(client.ins, call.key)
        ok         == call.st = "done"
        dels       == IF ok THEN call.dels ELSE {}
        unresolved == ok /\ call.unresolved
    IN  /\ call.kind = "searchDelete" /\ call.st \in {"done", "failed"}
        /\ \/ /\ unresolved \/ OutOfArray(n, dels)
              /\ call' = [kind |-> "aborted", w |-> call.w]
           \/ /\ ~unresolved
              /\ call' = [kind |-> "searchInsert", st |-> "sent", w |-> call.w,
                          key |-> call.key, n |-> n, dels |-> LeftOut(n, dels),
                          res |-> <<>>, ok |-> ok]
        /\ UNCHANGED <<setting, client, server, ghosts, answer, bounds>>

\* processSearch and, in cleaning mode, the batch of re-insertions.  Until that
\* batch is stored nothing can be expected of the keyword.
processSearch ==
    LET w   == call.w
        ok  == call.ok /\ call.st = "done"
        res == IF call.st = "done" THEN call.res ELSE <<>>
        out == Outcome(w, res, ok)
    IN  /\ call.kind = "searchInsert" /\ call.st \in {"done", "failed"}
        /\ IF setting.clean
           THEN /\ client' = AfterReinsertions(client, w, res)
                /\ call' = [kind |-> "batch", st |-> "sent", w |-> w, out |-> out,
                            reqs |-> Reinsertions(client, w, res),
                            keep |-> ok /\ w \in regular]
                /\ regular' = regular \ {w}
                /\ used' = [used EXCEPT ![w] = {}]
                /\ UNCHANGED answer
           ELSE answer' = out /\ call' = Idle /\ UNCHANGED <<client, used, regular>>
        /\ UNCHANGED <<setting, server, live, fresh, bounds>>

\* The other calls return; a failure is printed, never retried.
return ==
    /\ call.kind \in {"setup", "insert", "delete", "batch"}
    /\ call.st \in {"done", "failed"}
    /\ answer' = IF call.kind = "batch" THEN call.out ELSE answer
    /\ call' = Idle
    /\ UNCHANGED <<setting, client, server, ghosts, bounds>>

-----------------------------------------------------------------------------
\* The handlers of DianaServerRunner.

\* A second setup of one process opens the databases while they are open, which
\* RocksDB refuses: with usehdd the wrapper is left with db_ = NULL.  The old wrappers
\* are deleted after that, and the next setup can open the databases.
handleSetup ==
    /\ call.kind = "setup" /\ call.st = "sent"
    /\ server' = IF setting.usehdd
                 THEN [server EXCEPT !.up = IF @ = "ready" THEN "nodb" ELSE "ready",
                                     !.cnt = Empty]
                 ELSE NewServer("ready")
    /\ fresh' = (server'.ins = Empty /\ server'.del = Empty)
    /\ call' = [call EXCEPT !.st = "done"]
    /\ UNCHANGED <<setting, client, live, used, regular, answer, bounds>>

\* A handler that has nothing to look up or store touches neither the null pointer
\* of a server that was not set up nor its null database.
Touches ==
    CASE call.kind \in {"insert", "delete"} -> TRUE
      [] call.kind = "batch" -> call.reqs # <<>>
      [] call.kind \in {"searchDelete", "searchInsert"} -> call.n > 0
Serves(kind) ==
    /\ call.kind = kind /\ call.st = "sent"
    /\ server.up = "ready" \/ ~Touches
    /\ UNCHANGED <<setting, client, answer, bounds>>
Reply(c) == call' = [c EXCEPT !.st = "done"]

handleInsert ==
    /\ Serves("insert")
    /\ storeInsertion(call.w, call.req)
    /\ Reply(call)

handleDelete ==
    /\ Serves("delete")
    /\ storeDeletion(call.w, call.req)
    /\ Reply(call)

handleBatchInsert ==
    /\ Serves("batch")
    /\ server' = InsertAll(server, call.reqs, setting.usehdd)
    /\ used' = [used EXCEPT ![call.w] = {call.reqs[i].doc : i \in DOMAIN call.reqs}]
    /\ regular' = IF call.keep THEN regular \cup {call.w} ELSE regular
    /\ Reply(call)
    /\ UNCHANGED <<live, fresh>>

handleSearchDelete ==
    LET targets == Targets(server, call.delKey, call.key, call.n)
    IN  /\ Serves("searchDelete")
        /\ Reply([call EXCEPT !.dels = Revoked(server, targets),
                              !.unresolved = Unresolved(server, targets)])
        /\ UNCHANGED <<server, ghosts>>

handleSearchInsert ==
    /\ Serves("searchInsert")
    /\ \/ Reply([call EXCEPT !.res = Found(server, call.key, call.n, call.dels)])
       \/ NothingLeft(call.n, call.dels) /\ call' = [call EXCEPT !.st = "hung"]
    /\ UNCHANGED <<server, ghosts>>

\* The handler dereferences a null pointer and the process is gone.
crash ==
    /\ call.kind \notin {"idle", "setup", "aborted", "hung"} /\ call.st = "sent"
    /\ server.up # "ready" /\ Touches
    /\ server' = IF setting.usehdd THEN [server EXCEPT !.up = "none", !.cnt = Empty]
                 ELSE NewServer("none")
    /\ fresh' = FALSE
    /\ call' = [call EXCEPT !.st = "failed"]
    /\ UNCHANGED <<setting, client, live, used, regular, answer, bounds>>

-----------------------------------------------------------------------------
\* Faults.

Failed == IF "st" \in DOMAIN call THEN [call EXCEPT !.st = "failed"] ELSE call

loseCall ==
    /\ losses < MaxLosses /\ losses' = losses + 1
    /\ "st" \in DOMAIN call /\ call.st # "failed"
    /\ call' = Failed
    /\ UNCHANGED <<setting, client, server, ghosts, answer, updates, searches, restarts>>

Restart == restarts < MaxRestarts /\ restarts' = restarts + 1

\* delCntMap is kept in memory only.
restartServer ==
    /\ Restart /\ setting.remote
    /\ server' = IF setting.usehdd THEN [server EXCEPT !.up = "none", !.cnt = Empty]
                 ELSE NewServer("none")
    /\ fresh' = FALSE
    /\ call' = Failed
    /\ UNCHANGED <<setting, client, live, used, regular, answer, updates, searches, losses>>

\* The program that uses DianaInterface restarts.  The key files exist by now.
restartClient ==
    /\ Restart
    /\ client' = NewClient("saved")
    /\ call' = IF setting.remote THEN SetupCall ELSE Idle
    /\ server' = IF setting.remote THEN server
                 ELSE IF setting.usehdd THEN [server EXCEPT !.cnt = Empty]
                 ELSE NewServer("ready")
    /\ fresh' = (~setting.remote /\ server'.ins = Empty /\ server'.del = Empty)
    /\ live' = NoDocs /\ used' = NoDocs
    /\ regular' = Keywords
    /\ UNCHANGED <<setting, answer, updates, searches, losses>>

Next ==
    \/ \E w \in Keywords, d \in Docs : insertKeyword(w, d) \/ deleteKeyword(w, d)
    \/ \E w \in Keywords : searchKeyword(w) \/ searchDeletedKeyword(w)
    \/ searchInsertedKeyword \/ processSearch \/ return
    \/ handleSetup \/ handleInsert \/ handleDelete \/ handleBatchInsert
    \/ handleSearchDelete \/ handleSearchInsert \/ crash
    \/ loseCall \/ restartServer \/ restartClient

Spec == Init /\ [][Next]_vars

-----------------------------------------------------------------------------
Keys == [word : Keywords \cup {""}, no : Nat]

\* Types of the client's, the server's and the call's state.
TypeOK ==
    /\ DOMAIN client.token \subseteq Keywords /\ DOMAIN client.counter \subseteq Keywords
    /\ \A w \in DOMAIN client.token : client.token[w] \in Keys
    /\ \A k \in DOMAIN client.ins : k \in Keys /\ client.ins[k] \in Nat
    /\ \A k \in DOMAIN client.del : k \in Keys /\ client.del[k] \in Nat
    /\ server.up \in {"none", "ready", "nodb"}
    /\ \A t \in DOMAIN server.ins : t \in Keys \X Nat /\ server.ins[t] \in Docs
    /\ \A t \in DOMAIN server.del : server.del[t] \in Keys \X Docs
    /\ \A k \in DOMAIN server.cnt : k \in Keys \X Docs /\ server.cnt[k] \in Nat
    /\ "st" \in DOMAIN call => call.st \in {"sent", "done", "failed", "hung"}
    /\ regular \subseteq Keywords
    /\ \A w \in Keywords : live[w] \subseteq Docs /\ used[w] \subseteq Docs

\* The tables hold nothing at or beyond the client's counters, through failed calls
\* and cleaning: so the token of the next update is new, and an update that reaches
\* the server is never dropped by std::map::insert.  The types are right throughout.
TablesWithinCounters == TypeOK /\
    (fresh =>
        /\ \A t \in DOMAIN server.ins : t[2] < Count(client.ins, t[1])
        /\ \A t \in DOMAIN server.del :
              t[1] = client.delKey => t[3] < Count(client.del, t[2]))

\* delCntMap leads to an entry of the very key and document it is asked for: a
\* deletion can only ever hide its own document.
RevokesOwnDocument ==
    fresh => \A k \in DOMAIN server.cnt :
        /\ <<k[1], server.cnt[k]>> \in DOMAIN server.ins
        /\ server.ins[<<k[1], server.cnt[k]>>] = k[2]

\* A search whose calls succeeded, for a keyword in regular use, returns every live
\* document exactly once, across any number of cleaning searches and whatever
\* updates were lost before it.
AnswerExact ==
    answer.trusted =>
        IsInjective(answer.res) /\ ToSet(answer.res) = answer.expected

Hung == call.kind = "hung" \/ ("st" \in DOMAIN call /\ call.st = "hung")

\* In regular use a search aborts never, and fails to return only when every
\* document of the keyword has been deleted.
SearchCompletes ==
    /\ call.kind = "aborted" /\ fresh => call.w \notin regular
    /\ Hung /\ fresh /\ call.w \in regular => live[call.w] = {}
=============================================================================
