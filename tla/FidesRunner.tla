---------------------------- MODULE FidesRunner -----------------------------
(***************************************************************************)
(* Fides as fides_client and fides_server run it: blocking gRPC calls of   *)
(* one client process, and a server process holding the token table in     *)
(* memory or in RocksDB (UseHDD), with or without cleaning (DeleteItems).  *)
(* Calls can fail before or after the server handles them, and both        *)
(* processes restart.                                                      *)
(*                                                                         *)
(* The history variable ledger[w] has one record per counter of w: the     *)
(* value the client sent under it and whether the server should hold it.   *)
(***************************************************************************)
EXTENDS Integers, FiniteSets, Sequences

CONSTANTS
    Keywords, Docs,
    Modes,         \* the constructor arguments <<UseHDD, DeleteItems>> considered
    MaxCnt,        \* bound: tokens per keyword
    MaxSearches,   \* bound: searches
    MaxLosses,     \* bound: failed calls
    MaxRestarts    \* bound: process restarts

ASSUME RunnerAssumption ==
    /\ Modes \subseteq BOOLEAN \X BOOLEAN
    /\ Docs \subseteq Int /\ IsFiniteSet(Docs)
    /\ {MaxCnt, MaxSearches, MaxLosses, MaxRestarts} \subseteq Nat

VARIABLES
    UseHDD, DeleteItems,  \* the constructor's arguments
    ramCounter, prg,  \* the client's counters and PRG key
    server,           \* "none" until setup, then "ready", or "nodb" (db_ is NULL)
    edb,              \* the server's table
    call,             \* the client's outstanding call, or Idle
    ledger,           \* history: what each counter of the chain stands for
    fresh,            \* history: set up with no token of this client's chains
    answer,           \* what the client's last search returned
    searches, losses, restarts  \* counters for the bounds

\* The engine, with the constructor's arguments.
INSTANCE Sophos

mode == <<UseHDD, DeleteItems>>
clientVars == <<ramCounter, prg>>
serverVars == <<server, edb>>
ghosts == <<ledger, fresh>>
bounds == <<searches, losses, restarts>>
vars == <<UseHDD, DeleteItems, ramCounter, prg, server, edb, call, ledger, fresh,
          answer, searches, losses, restarts>>

Empty == [x \in {} |-> 0]
Idle == [kind |-> "idle"]
SetupCall == [kind |-> "setup", st |-> "sent"]
NoLog == [w \in Keywords |-> <<>>]
NoAnswer == [w |-> "none", ids |-> {}, ok |-> FALSE, seen |-> <<>>]

\* The constructor of FidesClientRunner and the call of setup() that follows it;
\* key files left by an earlier process may or may not be there.
Init ==
    /\ \E m \in Modes : UseHDD = m[1] /\ DeleteItems = m[2]
    /\ ramCounter = Empty
    /\ prg \in PrgKeys
    /\ call = SetupCall
    /\ server = "none"
    /\ edb = Empty
    /\ ledger = NoLog
    /\ fresh = FALSE
    /\ answer = NoAnswer
    /\ searches = 0 /\ losses = 0 /\ restarts = 0

Rec(op, d) == [op |-> op, ind |-> d, stored |-> FALSE]

-----------------------------------------------------------------------------
\* The client.

\* insertKeyword and deleteKeyword of FidesClientRunner up to the stub call.
update(op, w, d) ==
    /\ call = Idle
    /\ AddCount(ramCounter, w) < MaxCnt
    /\ call' = [kind |-> "update", st |-> "sent", w |-> w,
                token |-> Token(prg, w, AddCount(ramCounter, w)),
                val |-> [op |-> op, ind |-> d]]
    /\ ramCounter' = Advance(ramCounter, w, 1)
    /\ ledger' = [ledger EXCEPT ![w] = Append(@, Rec(op, d))]
    /\ UNCHANGED <<prg, serverVars, fresh, answer, bounds>>

\* searchKeyword of FidesClientRunner up to the stub call.
searchRequest(w) ==
    /\ call = Idle
    /\ searches < MaxSearches
    /\ searches' = searches + 1
    /\ call' = [kind |-> "search", st |-> "sent", w |-> w, prg |-> prg,
                addCount |-> AddCount(ramCounter, w),
                reply |-> Empty, seen |-> <<>>]
    /\ UNCHANGED <<clientVars, serverVars, ghosts, answer, losses, restarts>>

\* searchProcess and, in cleaning mode, the re-insertion loop and the batchUpdate
\* call.  The status of the search is not looked at: a failed search is processed
\* as one that found nothing.
searchProcess ==
    LET w   == call.w
        res == FinalRes(IF call.st = "done" THEN call.reply ELSE Empty)
        out == [w |-> w, ids |-> res, ok |-> call.st = "done",
                seen |-> call.seen]
    IN  /\ call.kind = "search"
        /\ call.st # "sent"
        /\ IF DeleteItems
           THEN /\ ramCounter' = Advance(ramCounter, w, Cardinality(res))
                /\ call' = [kind |-> "batch", st |-> "sent", w |-> w, out |-> out,
                            pairs |-> Reinserted(prg, w, AddCount(ramCounter, w), res)]
                /\ ledger' = [ledger EXCEPT ![w] =
                                 @ \o [r \in 1..Cardinality(res) |->
                                          Rec("INS", NthIn(res, r))]]
                /\ UNCHANGED answer
           ELSE /\ answer' = out
                /\ call' = Idle
                /\ UNCHANGED <<ramCounter, ledger>>
        /\ UNCHANGED <<prg, serverVars, fresh, bounds>>

\* The other calls return; a failure is printed, never retried.
return ==
    /\ call.kind \in {"setup", "update", "batch"}
    /\ call.st # "sent"
    /\ answer' = IF call.kind = "batch" THEN call.out ELSE answer
    /\ call' = Idle
    /\ UNCHANGED <<clientVars, serverVars, ghosts, bounds>>

-----------------------------------------------------------------------------
\* The server: the handlers of FidesServerRunner.

Clean(table) == \A t \in DOMAIN table : t.prg # prg

\* The new SophosServer is constructed before the old one is deleted, and RocksDB
\* refuses to open a database that is still open: with UseHDD a second setup of
\* one process leaves RockDBWrapper with db_ = NULL.  The old one closes the database
\* when it is deleted, and the next setup can open it.
handleSetup ==
    /\ call.kind = "setup" /\ call.st = "sent"
    /\ server' = IF UseHDD /\ server = "ready" THEN "nodb" ELSE "ready"
    /\ edb' = IF UseHDD THEN edb ELSE Empty
    /\ fresh' = Clean(edb')
    /\ call' = [call EXCEPT !.st = "done"]
    /\ UNCHANGED <<clientVars, ledger, answer, bounds>>

\* A call that goes to the table at all, and the calls the server survives.
Touches ==
    CASE call.kind = "update" -> TRUE
      [] call.kind = "batch"  -> call.pairs # Empty
      [] call.kind = "search" -> call.addCount > 0
Serves == server = "ready" \/ (server = "nodb" /\ ~Touches)

MarkStored(log, from) ==
    [i \in DOMAIN log |-> IF i > from THEN [log[i] EXCEPT !.stored = TRUE] ELSE log[i]]

handleUpdate ==
    /\ call.kind = "update" /\ call.st = "sent" /\ Serves
    /\ edb' = Store(edb, call.token, call.val)
    /\ ledger' = [ledger EXCEPT ![call.w] = MarkStored(@, Len(@) - 1)]
    /\ call' = [call EXCEPT !.st = "done"]
    /\ UNCHANGED <<clientVars, server, fresh, answer, bounds>>

handleBatchUpdate ==
    /\ call.kind = "batch" /\ call.st = "sent" /\ Serves
    /\ edb' = StoreAll(edb, call.pairs)
    /\ ledger' = [ledger EXCEPT ![call.w] =
                     MarkStored(@, Len(@) - Cardinality(DOMAIN call.pairs))]
    /\ call' = [call EXCEPT !.st = "done"]
    /\ UNCHANGED <<clientVars, server, fresh, answer, bounds>>

Forget(log) == [i \in DOMAIN log |-> [log[i] EXCEPT !.stored = FALSE]]

\* In cleaning mode the handler erases what it returns.
handleSearch ==
    LET found == Found(edb, call.prg, call.w, call.addCount)
    IN  /\ call.kind = "search" /\ call.st = "sent" /\ Serves
        /\ call' = [call EXCEPT
                       !.st = "done",
                       !.reply = [c \in found |-> edb[Token(call.prg, call.w, c)]],
                       !.seen = ledger[call.w]]
        /\ IF DeleteItems
           THEN /\ edb' = Erase(edb, call.prg, call.w, found)
                /\ ledger' = [ledger EXCEPT ![call.w] = Forget(@)]
           ELSE UNCHANGED <<edb, ledger>>
        /\ UNCHANGED <<clientVars, server, fresh, answer, bounds>>

\* Before setup insertServer is null, and in "nodb" db_ is: the handler crashes the
\* process.  What takes its place, if anything does, has not been set up.
crash ==
    /\ call.kind \in {"update", "batch", "search"} /\ call.st = "sent"
    /\ ~Serves
    /\ server' = "none"
    /\ call' = [call EXCEPT !.st = "failed"]
    /\ UNCHANGED <<clientVars, edb, ghosts, answer, bounds>>

-----------------------------------------------------------------------------
\* Faults.

loseCall ==
    /\ losses < MaxLosses
    /\ losses' = losses + 1
    /\ call # Idle /\ call.st # "failed"
    /\ call' = [call EXCEPT !.st = "failed"]
    /\ UNCHANGED <<clientVars, serverVars, ghosts, answer, searches, restarts>>

Restart == restarts < MaxRestarts /\ restarts' = restarts + 1

\* The server process restarts; a reply on its way to the client is lost.
restartServer ==
    /\ Restart
    /\ server' = "none"
    /\ edb' = IF UseHDD THEN edb ELSE Empty
    /\ ledger' = IF UseHDD THEN ledger ELSE [w \in Keywords |-> Forget(ledger[w])]
    /\ call' = IF call = Idle THEN call ELSE [call EXCEPT !.st = "failed"]
    /\ UNCHANGED <<clientVars, fresh, answer, searches, losses>>

\* The client process restarts: the key files exist by now, the counters do not,
\* and main calls setup().
restartClient ==
    /\ Restart
    /\ ramCounter' = Empty
    /\ prg' = "reloaded"
    /\ call' = SetupCall
    /\ ledger' = NoLog
    /\ fresh' = FALSE
    /\ answer' = NoAnswer
    /\ UNCHANGED <<serverVars, searches, losses>>

Step ==
    \/ \E op \in {"INS", "DEL"}, w \in Keywords, d \in Docs : update(op, w, d)
    \/ \E w \in Keywords : searchRequest(w)
    \/ searchProcess
    \/ return
    \/ handleSetup \/ handleUpdate \/ handleBatchUpdate \/ handleSearch \/ crash
    \/ loseCall \/ restartServer \/ restartClient

Next == Step /\ UNCHANGED mode

Spec == Init /\ [][Next]_vars

-----------------------------------------------------------------------------
\* Types of the client's and the server's state.
TypeOK ==
    /\ DOMAIN ramCounter \subseteq Keywords
    /\ \A w \in DOMAIN ramCounter : ramCounter[w] \in Nat
    /\ prg \in PrgKeys
    /\ server \in {"none", "ready", "nodb"}
    /\ server = "nodb" => UseHDD
    /\ DOMAIN edb \subseteq Tokens /\ \A t \in DOMAIN edb : edb[t] \in Values
    /\ call = Idle \/ call.st \in {"sent", "done", "failed"}
    /\ answer.ids \subseteq Docs

StoredTimes(log, op, d) ==
    Cardinality({i \in DOMAIN log : log[i].stored /\ log[i].op = op /\ log[i].ind = d})
LiveDocs(log) ==
    {d \in Docs : StoredTimes(log, "INS", d) > StoredTimes(log, "DEL", d)}

\* The client's counters and the server's table agree through every failure: the
\* server holds the value of a counter exactly when that update or re-insertion
\* reached it and no search has taken it out again.  A lost update leaves a hole
\* and nothing else (SophosServer::search skips missing tokens).  The types are
\* right throughout.
LedgerMatchesServer ==
    TypeOK /\ (fresh => \A w \in Keywords :
        /\ Len(ledger[w]) = AddCount(ramCounter, w)
        /\ \A i \in DOMAIN ledger[w] :
              LET t == Token(prg, w, i - 1)
              IN  /\ ledger[w][i].stored <=> t \in DOMAIN edb
                  /\ t \in DOMAIN edb =>
                        edb[t] = [op |-> ledger[w][i].op, ind |-> ledger[w][i].ind])

\* A search whose call succeeded answers with exactly the documents the stored
\* updates leave live, whatever failed before it.
AnswerExact == fresh /\ answer.ok => answer.ids = LiveDocs(answer.seen)

\* When the search and, in cleaning mode, the re-insertion both succeeded, the
\* server afterwards holds exactly the answer: cleaning loses and adds nothing.
SearchPreservesIndex ==
    [][/\ call # Idle /\ call.kind \in {"batch", "search"} /\ call.st = "done"
       /\ call' = Idle /\ answer'.ok /\ fresh
       => LiveDocs(ledger[answer'.w]) = answer'.ids]_vars
=============================================================================
