---------------------------- MODULE MitraRunner -----------------------------
(***************************************************************************)
(* Mitra as mitra_client and mitra_server run it: one client process whose *)
(* blocking gRPC calls carry the requests, and one server process that     *)
(* keeps the dictionary in memory.  A call can fail before the server      *)
(* handles it or after; the client prints the status and goes on with an   *)
(* empty response.  Either process can be restarted.                       *)
(*                                                                         *)
(* The variables sent, blank, answer and fresh are history: they record    *)
(* what the caller asked for and what it was told.                         *)
(***************************************************************************)
EXTENDS Integers, Sequences, FiniteSets

CONSTANTS
    Keywords, Docs, Junk,
    Modes,         \* the constructor arguments DeleteFiles considered
    MaxCnt,        \* bound: updates per keyword
    MaxSearches,   \* bound: searches
    MaxFaults      \* bound: failed calls and restarts

ASSUME RunnerAssumption ==
    /\ Modes \subseteq BOOLEAN
    /\ Docs \subseteq Int /\ IsFiniteSet(Docs)
    /\ Junk \in Int \ Docs
    /\ {MaxCnt, MaxSearches, MaxFaults} \subseteq Nat

VARIABLES
    DeleteFiles,      \* the constructor's argument: the cleaning mode
    FileCnt, SrcCnt,  \* the client's maps, by key buffer
    server,           \* "none" until setup, then "ready" (server_ is not null)
    DictW,            \* the server's dictionary
    call,             \* the client's outstanding call, or Idle
    sent,             \* sent[w]: the updates issued, with what became of them
    blank,            \* blank[w]: counts at which a cleaning search got no entry
    fresh,            \* this client's setup call was handled
    answer,           \* what the client's last search returned
    searches, faults  \* counters for the bounds

\* Client and server, with the constructor's argument.
INSTANCE MitraCommon

clientVars == <<FileCnt, SrcCnt>>
serverVars == <<server, DictW>>
ghosts == <<sent, blank, fresh>>
bounds == <<searches, faults>>
vars == <<DeleteFiles, FileCnt, SrcCnt, server, DictW, call, sent, blank, fresh,
          answer, searches, faults>>

Empty == [k \in {} |-> 0]
Idle == [kind |-> "idle"]
NoAnswer == [w |-> "none", ids |-> {}, seen |-> <<>>, trusted |-> FALSE]

\* The constructor of MitraClientRunner issues the setup call.
SetupCall == [kind |-> "setup", st |-> "sent"]

Init ==
    /\ DeleteFiles \in Modes
    /\ FileCnt = Empty
    /\ SrcCnt = Empty
    /\ call = SetupCall
    /\ server = "none"
    /\ DictW = Empty
    /\ sent = [w \in Keywords |-> <<>>]
    /\ blank = [w \in Keywords |-> {}]
    /\ fresh = FALSE
    /\ answer = NoAnswer
    /\ searches = 0
    /\ faults = 0

-----------------------------------------------------------------------------
\* The client.

\* MitraClientRunner::update up to the stub call, with Client::updateRequest.
update(op, w, ind) ==
    LET k       == KW(w)
        fileCnt == At(FileCnt, k) + 1
        srcCnt  == IF DeleteFiles THEN At(SrcCnt, k) ELSE 0
    IN  /\ call = Idle
        /\ Len(sent[w]) < MaxCnt
        /\ FileCnt' = Put(FileCnt, k, fileCnt)
        /\ SrcCnt' = IF DeleteFiles THEN Put(SrcCnt, k, srcCnt) ELSE SrcCnt
        /\ call' = [kind |-> "update", st |-> "sent", w |-> w,
                    addr |-> Stamp(k, 0, srcCnt, fileCnt),
                    val  |-> Encrypt(ind, op, Stamp(k, 1, srcCnt, fileCnt))]
        /\ sent' = [sent EXCEPT ![w] =
                        Append(@, [op |-> op, ind |-> ind, stored |-> FALSE])]
        /\ UNCHANGED <<serverVars, blank, fresh, answer, bounds>>

\* MitraClientRunner::search up to the stub call, with Client::searchRequest:
\* the buffer k it returns has been stamped once per address.
searchRequest(w) ==
    LET k       == KW(w)
        fileCnt == At(FileCnt, k)
        srcCnt  == IF DeleteFiles THEN At(SrcCnt, k) ELSE 0
    IN  /\ call = Idle
        /\ searches < MaxSearches
        /\ searches' = searches + 1
        /\ call' = [kind |-> "search", st |-> "sent", w |-> w,
                    k |-> AfterKList(k, srcCnt, fileCnt),
                    KList |-> KListOf(k, srcCnt, fileCnt),
                    reply |-> <<>>, seen |-> <<>>]
        /\ UNCHANGED <<clientVars, serverVars, ghosts, answer, faults>>

\* A search can be believed when its call succeeded, this client set the server
\* up, the updates that were stored are the first ones, and no earlier cleaning
\* search of w came back empty at this count or before the first update.
IsPrefix(log) ==
    \A i, j \in DOMAIN log : i < j /\ log[j].stored => log[i].stored
Trusted(w) ==
    /\ call.st = "done"
    /\ fresh
    /\ IsPrefix(call.seen)
    /\ {0, At(FileCnt, KW(w))} \cap blank[w] = {}

Result(w, res) ==
    [w |-> w, ids |-> res, seen |-> call.seen, trusted |-> Trusted(w)]

\* Client::searchProcess and the batchUpdate call of MitraClientRunner::search.
\* srcCnt is looked up under the stamped buffer, not under the keyword.
searchProcess ==
    LET w      == call.w
        k      == call.k
        srcCnt == IF DeleteFiles THEN At(SrcCnt, k) ELSE 0
        enc    == IF call.st = "done" THEN call.reply ELSE <<>>
        k1     == AfterDecode(enc, k, srcCnt)
    IN  /\ call.kind = "search"
        /\ call.st # "sent"
        /\ \E junk \in JunkReads(enc, k, srcCnt) :
              LET res == Positive(enc, k, srcCnt) \cup junk
              IN  IF DeleteFiles
                  THEN /\ SrcCnt' = Put(SrcCnt, k1, At(SrcCnt, k1) + 1)
                       /\ FileCnt' = Put(FileCnt, AfterCleaning(k1, srcCnt + 1, res),
                                         Cardinality(res))
                       /\ call' = [kind |-> "batch", st |-> "sent",
                                   pairs |-> CleaningPairs(k1, srcCnt + 1, res),
                                   result |-> Result(w, res)]
                       /\ blank' = [blank EXCEPT ![w] =
                                       IF enc = <<>> THEN @ \cup {At(FileCnt, KW(w))}
                                       ELSE @]
                       /\ UNCHANGED answer
                  ELSE /\ answer' = Result(w, res)
                       /\ call' = Idle
                       /\ UNCHANGED <<clientVars, blank>>
        /\ UNCHANGED <<serverVars, sent, fresh, bounds>>

\* The other calls return; whatever the status, the client carries on.
return ==
    /\ call.kind \in {"setup", "update", "batch"}
    /\ call.st # "sent"
    /\ call' = Idle
    /\ answer' = IF call.kind = "batch" THEN call.result ELSE answer
    /\ UNCHANGED <<clientVars, serverVars, ghosts, bounds>>

-----------------------------------------------------------------------------
\* The server: the handlers of MitraServerRunner.

handleSetupKeeping ==                                    \* mutant
    /\ call.kind = "setup" /\ call.st = "sent"
    /\ server' = "ready"
    /\ fresh' = TRUE
    /\ call' = [call EXCEPT !.st = "done"]
    /\ UNCHANGED <<clientVars, DictW, sent, blank, answer, bounds>>

handleSetup ==
    /\ call.kind = "setup" /\ call.st = "sent"
    /\ server' = "ready"
    /\ DictW' = Empty
    /\ fresh' = TRUE
    /\ call' = [call EXCEPT !.st = "done"]
    /\ UNCHANGED <<clientVars, sent, blank, answer, bounds>>

handleUpdate ==
    /\ call.kind = "update" /\ call.st = "sent" /\ server = "ready"
    /\ DictW' = Put(DictW, call.addr, call.val)
    /\ sent' = [sent EXCEPT ![call.w][Len(sent[call.w])].stored = TRUE]
    /\ call' = [call EXCEPT !.st = "done"]
    /\ UNCHANGED <<clientVars, server, blank, fresh, answer, bounds>>

handleBatchUpdate ==
    /\ call.kind = "batch" /\ call.st = "sent" /\ server = "ready"
    /\ DictW' = PutAll(DictW, call.pairs)
    /\ call' = [call EXCEPT !.st = "done"]
    /\ UNCHANGED <<clientVars, server, ghosts, answer, bounds>>

handleSearch ==
    /\ call.kind = "search" /\ call.st = "sent" /\ server = "ready"
    /\ call' = [call EXCEPT !.st = "done",
                            !.reply = ServerSearch(DictW, call.KList),
                            !.seen = sent[call.w]]
    /\ UNCHANGED <<clientVars, serverVars, ghosts, answer, bounds>>

\* FAILED_PRECONDITION: the server is not set up.
refuse ==
    /\ call.kind \in {"update", "batch", "search"} /\ call.st = "sent"
    /\ server = "none"
    /\ call' = [call EXCEPT !.st = "failed"]
    /\ UNCHANGED <<clientVars, serverVars, ghosts, answer, bounds>>

-----------------------------------------------------------------------------
\* Faults.

Fault == faults < MaxFaults /\ faults' = faults + 1

\* The call fails: its request never arrives, or its reply is lost.
loseCall ==
    /\ Fault
    /\ call # Idle /\ call.st # "failed"
    /\ call' = [call EXCEPT !.st = "failed"]
    /\ UNCHANGED <<clientVars, serverVars, ghosts, answer, searches>>

\* The server process restarts: server_ is null again and DictW is gone.
restartServer ==
    /\ Fault
    /\ server' = "none"
    /\ DictW' = Empty
    /\ sent' = [w \in Keywords |->
                   [i \in DOMAIN sent[w] |-> [sent[w][i] EXCEPT !.stored = FALSE]]]
    /\ UNCHANGED <<clientVars, call, blank, fresh, answer, searches>>

\* The client process restarts with empty maps and sets the server up again.
restartClient ==
    /\ Fault
    /\ FileCnt' = Empty
    /\ SrcCnt' = Empty
    /\ call' = SetupCall
    /\ sent' = [w \in Keywords |-> <<>>]
    /\ blank' = [w \in Keywords |-> {}]
    /\ fresh' = FALSE
    /\ answer' = NoAnswer
    /\ UNCHANGED <<serverVars, searches>>

Step ==
    \/ \E op \in {INS, DEL}, w \in Keywords, d \in Docs : update(op, w, d)
    \/ \E w \in Keywords : searchRequest(w)
    \/ searchProcess
    \/ return
    \/ handleSetup \/ handleUpdate \/ handleBatchUpdate \/ handleSearch \/ refuse
    \/ loseCall \/ restartServer \/ restartClient

Next == Step /\ UNCHANGED DeleteFiles

Spec == Init /\ [][Next]_vars

-----------------------------------------------------------------------------
\* The maps hold counters, the dictionary ciphertexts, and at most one call is
\* outstanding, in one of the three states of a blocking call.
TypeOK ==
    /\ DOMAIN FileCnt \subseteq Buffers /\ \A k \in DOMAIN FileCnt : FileCnt[k] \in Nat
    /\ DOMAIN SrcCnt \subseteq Buffers /\ \A k \in DOMAIN SrcCnt : SrcCnt[k] \in Nat
    /\ server \in {"none", "ready"}
    /\ DOMAIN DictW \subseteq Buffers /\ \A a \in DOMAIN DictW : DictW[a] \in Ciphers
    /\ call = Idle \/ call.st \in {"sent", "done", "failed"}
    /\ answer.ids \subseteq Inds

StoredTimes(log, op, d) ==
    Cardinality({i \in DOMAIN log : /\ log[i].stored
                                    /\ log[i].op = op /\ log[i].ind = d})
LiveDocs(log) ==
    {d \in Docs : StoredTimes(log, INS, d) > StoredTimes(log, DEL, d)}

\* The answer of a search is exactly the documents that the stored updates leave
\* live, whatever calls failed or processes restarted before it, provided the
\* search can be believed (Trusted): a lost batchUpdate, a lost reply of an
\* update, a lost last update and a restarted client are all harmless.  The types
\* are right throughout.
AnswerExact == TypeOK /\ (answer.trusted => answer.ids = LiveDocs(answer.seen))

\* Even a search that cannot be believed (misaligned masks after a lost update,
\* stale search counters) reports, besides garbage, only documents that were
\* inserted for the keyword searched; only a server left over from an earlier
\* client (its setup call failed) can answer with older documents.
NoForeignDocuments ==
    fresh =>
        answer.ids \ {Junk} \subseteq
            {answer.seen[i].ind : i \in {j \in DOMAIN answer.seen :
                                              answer.seen[j].op = INS}}
=============================================================================
