-------------------------------- MODULE Horus --------------------------------
(***************************************************************************)
(* Horus: an inverted index over an oblivious map and a PRF-positioned     *)
(* ORAM.  As in Orion, a keyword has a list of documents and remove fills  *)
(* the hole with the last one.  updt maps a document to its slot, and a    *)
(* slot to its document, each with the access count of the slot, which     *)
(* grows whenever the slot is filled again.  A search reads boxes only: a  *)
(* box is named by keyword, slot, number of earlier searches and access    *)
(* count, and the search finds the last access count of every slot by      *)
(* bisection, all slots side by side, one batch of reads per round.  Then  *)
(* it writes the slots anew under the next search number.  Box 1 of a slot *)
(* says where to start ("@k") when the access count does not start at 1.   *)
(*                                                                         *)
(* One action is one call, except for search: it starts, makes its rounds  *)
(* (one iteration of the loop each) and ends.                              *)
(***************************************************************************)
EXTENDS Integers, FiniteSets, OMAP, PRFORAM

CONSTANTS
    Keywords, Docs,     \* positive integers
    Depth,              \* floor(log2(maxSize)), of the tree of boxes
    PRF(_, _, _, _),    \* the pseudorandom function behind generatePosition
    Radix,              \* above every counter in a box identifier
    MaxSearches,        \* bound: searches of one keyword
    MaxAccess,          \* bound: access count of a slot
    SetupMixed          \* TRUE: setupInsert may follow a removal or repeat a document

\* Depth 0 would make generatePosition divide by zero.
ASSUME HorusAssumption ==
    /\ Radix \in Nat /\ MaxAccess \in 1..(Radix - 2) /\ MaxSearches \in 0..(Radix - 1)
    /\ Keywords \subseteq 1..(Radix - 1)
    /\ Docs \subseteq Nat \ {0} /\ IsFiniteSet(Docs) /\ Cardinality(Docs) < Radix
    /\ Depth \in Nat \ {0}
    /\ \A w \in Keywords, i \in 1..Cardinality(Docs), s \in 0..MaxSearches, a \in 1..MaxAccess :
          PRF(w, i, s, a) \in Nat
    /\ SetupMixed \in BOOLEAN

\* What defines the powers of two that number the leaves and the buckets.
ASSUME PowerAssumption == 2^0 = 1 /\ \A d \in 0..Depth : 2^(d + 1) = 2 * 2^d

VARIABLES
    UpdtCnt, SrchCnt, Access, LastIND, latestUpdatedCounter,
    updt,           \* OMAP_updt
    srch,           \* ORAM_srch
    setupPairs1, setupPairs2,
    phase,          \* "new", "setup", "run", or "dead" after an exception of the ORAM
    scan,           \* the search in progress, or Idle
    answer          \* outcome of the last operation that has one

counters == <<UpdtCnt, SrchCnt, Access, LastIND, latestUpdatedCounter>>
staged == <<setupPairs1, setupPairs2>>
vars == <<counters, updt, srch, staged, phase, scan, answer>>

Idle == [keyword |-> 0]
NoDoc == 0

\* createBid and generatePosition.
Bid0(w, d) == <<0, w, d>>
Bid1(w, i) == <<1, w, i>>
createBid(w, i, s, a) == ((i * Radix + s) * Radix + a) * Radix + w
generatePosition(w, i, s, a) == PRF(w, i, s, a) % (2^Depth - 1)

\* What a box holds: a document, or "@k".
Doc(d) == <<"doc", d>>
At(k) == <<"at", k>>

Init ==
    /\ UpdtCnt = [w \in Keywords |-> 0] /\ SrchCnt = [w \in Keywords |-> 0]
    /\ Access = [w \in Keywords |-> 0] /\ LastIND = [w \in Keywords |-> NoDoc]
    /\ latestUpdatedCounter = [w \in Keywords |-> 0]
    /\ updt = EmptyMap /\ srch = NewPRFORAM(Depth)
    /\ setupPairs1 = EmptyMap /\ setupPairs2 = EmptyMap
    /\ phase = "new" /\ scan = Idle /\ answer = << >>

Larger(a, b) == IF a > b THEN a ELSE b
Has(m, key) == key \in DOMAIN m

\* The slot of a document in map m: -1 once it was removed, 0 if it is unknown.
Slot(m, w, d) == IF Has(m, Bid0(w, d)) THEN m[Bid0(w, d)][1] ELSE 0

\* The outcomes of writing a box of slot i.
Write(o, w, i, a, value) ==
    WriteBox(o, createBid(w, i, SrchCnt[w], a), value, generatePosition(w, i, SrchCnt[w], a))

\* Map m with document d in slot i under access count a.
Filled(m, w, i, d, a) == insert(insert(m, Bid0(w, d), <<i, a>>), Bid1(w, i), <<d, a>>)

\* The ORAM refused a box.  The exception is caught nowhere, so nobody sees what
\* the operation changed before it.
Die ==
    /\ phase' = "dead" /\ answer' = <<"threw">>
    /\ UNCHANGED <<counters, updt, srch, staged, scan>>

Ready == scan = Idle /\ phase \in {"new", "run"}
Survives(o) == ~o.threw /\ phase' = "run" /\ srch' = o

-----------------------------------------------------------------------------
\* The access count for the next document of w, and the boxes written for it.
NextAccess(w) ==
    LET key == Bid1(w, UpdtCnt[w] + 1) IN IF Has(updt, key) THEN updt[key][2] + 1 ELSE 1
NewBoxes(w, d) ==
    LET i == UpdtCnt[w] + 1
        a == NextAccess(w)
        written == Write(srch, w, i, a, Doc(d))
    IN  IF latestUpdatedCounter[w] < i /\ a > 1 THEN UNION {Write(o, w, i, 1, At(a)) : o \in written}
        ELSE written

\* insert, which has no effect when the document is listed.
add(w, d) ==
    LET i == UpdtCnt[w] + 1
        a == NextAccess(w)
    IN  /\ Ready
        /\ \/ /\ Slot(updt, w, d) > 0 /\ phase' = "run"
              /\ UNCHANGED <<counters, updt, srch, staged, scan, answer>>
           \/ /\ Slot(updt, w, d) <= 0 /\ a <= MaxAccess
              /\ \E o \in NewBoxes(w, d) : Survives(o)
              /\ UpdtCnt' = [UpdtCnt EXCEPT ![w] = i]
              /\ Access' = [Access EXCEPT ![w] = Larger(@, a)]
              /\ updt' = Filled(updt, w, i, d, a)
              /\ latestUpdatedCounter' = [latestUpdatedCounter EXCEPT ![w] = IF @ < i THEN @ + 1 ELSE @]
              /\ LastIND' = [LastIND EXCEPT ![w] = d]
              /\ UNCHANGED <<SrchCnt, staged, scan, answer>>
           \/ Slot(updt, w, d) <= 0 /\ (\E o \in NewBoxes(w, d) : o.threw) /\ Die

\* The maps after document d is taken out of the list: the last document moves
\* into its slot, unless it was the last one.
Moves(w, i) == UpdtCnt[w] > 1 /\ UpdtCnt[w] # i
Unlisted(m, w, d) ==
    LET e == m[Bid0(w, d)]
        gone == insert(m, Bid0(w, d), <<-1, e[2] + 1>>)
    IN  IF Moves(w, e[1]) THEN Filled(gone, w, e[1], LastIND[w], e[2] + 1) ELSE gone
UnlistedAccess(m, w, d) ==
    LET e == m[Bid0(w, d)] IN IF Moves(w, e[1]) THEN Larger(Access[w], e[2] + 1) ELSE Access[w]
NewLast(m, w) == IF UpdtCnt[w] > 1 THEN m[Bid1(w, UpdtCnt[w] - 1)][1] ELSE NoDoc

Unlist(m, w, d) ==
    /\ UpdtCnt' = [UpdtCnt EXCEPT ![w] = @ - 1]
    /\ Access' = [Access EXCEPT ![w] = UnlistedAccess(m, w, d)]
    /\ LastIND' = [LastIND EXCEPT ![w] = NewLast(Unlisted(m, w, d), w)]

MovedBoxSameAccess(w, d) ==                                        \* mutant
    LET e == updt[Bid0(w, d)]
    IN  IF Moves(w, e[1]) THEN Write(srch, w, e[1], e[2], Doc(LastIND[w])) ELSE {srch}
MovedBox(w, d) ==
    LET e == updt[Bid0(w, d)]
    IN  IF Moves(w, e[1]) THEN Write(srch, w, e[1], e[2] + 1, Doc(LastIND[w])) ELSE {srch}

\* remove; stoi("") throws for a document that was never there.
remove(w, d) ==
    /\ Ready
    /\ \/ /\ Slot(updt, w, d) <= 0 /\ phase' = "run"
          /\ answer' = IF Slot(updt, w, d) = 0 THEN <<"threw">> ELSE answer
          /\ UNCHANGED <<counters, updt, srch, staged, scan>>
       \/ /\ Slot(updt, w, d) > 0 /\ UnlistedAccess(updt, w, d) <= MaxAccess
          /\ \E o \in MovedBox(w, d) : Survives(o)
          /\ Unlist(updt, w, d)
          /\ updt' = Unlisted(updt, w, d)
          /\ UNCHANGED <<SrchCnt, latestUpdatedCounter, staged, scan, answer>>
       \/ Slot(updt, w, d) > 0 /\ (\E o \in MovedBox(w, d) : o.threw) /\ Die

-----------------------------------------------------------------------------
\* search: one record per slot.
NewItem(w) == [left |-> 1, right |-> Access[w], cur |-> 1, lastAcc |-> 0, lastID |-> << >>, found |-> FALSE]

search(w) ==
    /\ Ready
    /\ SrchCnt[w] < MaxSearches
    /\ scan' = [keyword |-> w, first |-> TRUE, items |-> [i \in 1..UpdtCnt[w] |-> NewItem(w)]]
    /\ phase' = "run"
    /\ UNCHANGED <<counters, updt, srch, staged, answer>>

Ceil2(n) == (n + 1) \div 2
Floor2(n) == n \div 2

\* An item after the first round, in which box 1 of every slot was read as id.
FirstRound(it, id) ==
    IF id # << >> /\ id[1] = "at" /\ it.left = 1
    THEN [it EXCEPT !.left = id[2], !.cur = Floor2(id[2] + it.right), !.lastAcc = Floor2(id[2] + it.right)]
    ELSE [it EXCEPT !.cur = Floor2(it.left + it.right)]

\* An item after a later round that read id at access count cur.
LaterRoundUp(it, id) ==                                            \* mutant
    CASE (id = << >> \/ it.left >= it.right) /\ it.right <= it.left ->
            IF it.lastID = << >> THEN [it EXCEPT !.found = TRUE, !.lastID = id, !.lastAcc = it.cur]
                                 ELSE [it EXCEPT !.found = TRUE]
      [] id = << >> /\ it.left < it.right ->
            [it EXCEPT !.right = it.cur, !.cur = Ceil2(it.left + it.cur)]
      [] OTHER ->
            [it EXCEPT !.lastID = id, !.lastAcc = it.cur, !.left = it.cur,
                       !.cur = IF it.cur = it.left THEN Ceil2(it.cur + it.right) ELSE Floor2(it.cur + it.right)]
LaterRound(it, id) ==
    CASE (id = << >> \/ it.left >= it.right) /\ it.right <= it.left ->
            IF it.lastID = << >> THEN [it EXCEPT !.found = TRUE, !.lastID = id, !.lastAcc = it.cur]
                                 ELSE [it EXCEPT !.found = TRUE]
      [] id = << >> /\ it.left < it.right ->
            IF it.cur = it.right
            THEN [it EXCEPT !.cur = Floor2(it.left + it.right), !.right = Floor2(it.left + it.right)]
            ELSE [it EXCEPT !.right = it.cur, !.cur = Ceil2(it.left + it.cur)]
      [] OTHER ->
            [it EXCEPT !.lastID = id, !.lastAcc = it.cur, !.left = it.cur,
                       !.cur = IF it.cur = it.left THEN Ceil2(it.cur + it.right) ELSE Floor2(it.cur + it.right)]

Searching == scan # Idle
Unfound == {i \in DOMAIN scan.items : ~scan.items[i].found}

\* One iteration of the loop: the boxes of all slots not found yet are read in one
\* batch, then every such slot takes its next step.
searchRound ==
    /\ Searching /\ Unfound # {}
    /\ LET w == scan.keyword
           bid(i) == createBid(w, i, SrchCnt[w], scan.items[i].cur)
           slotOf(b) == CHOOSE i \in Unfound : bid(i) = b
           pos == [b \in {bid(i) : i \in Unfound} |->
                      generatePosition(w, slotOf(b), SrchCnt[w], scan.items[slotOf(b)].cur)]
           read == batchRead(srch, pos)
           step(i) == IF scan.first THEN FirstRound(scan.items[i], read[1][bid(i)])
                                    ELSE LaterRound(scan.items[i], read[1][bid(i)])
       IN  /\ srch' = read[2]
           /\ scan' = [scan EXCEPT !.first = FALSE,
                          !.items = [i \in DOMAIN @ |-> IF i \in Unfound THEN step(i) ELSE @[i]]]
    /\ UNCHANGED <<counters, updt, staged, phase, answer>>

\* The boxes of the next search number: the slots as found, with "@k" where needed.
RewrittenNoStart(w) ==                                             \* mutant
    LET key(i, a) == <<i, a>>
    IN  [k \in {key(i, scan.items[i].lastAcc) : i \in DOMAIN scan.items} |-> scan.items[k[1]].lastID]
Rewritten(w) ==
    LET key(i, a) == <<i, a>>
        docs == {key(i, scan.items[i].lastAcc) : i \in DOMAIN scan.items}
        starts == {key(i, 1) : i \in DOMAIN scan.items} \ docs
    IN  [k \in docs \cup starts |->
            IF k \in docs THEN scan.items[k[1]].lastID ELSE At(scan.items[k[1]].lastAcc)]

\* The end of search; stoi would throw for anything but a document.
searchEnd ==
    LET w == scan.keyword
        s == SrchCnt[w] + 1
        boxes == Rewritten(w)
        bid(k) == createBid(w, k[1], s, k[2])
        keyOf(b) == CHOOSE k \in DOMAIN boxes : bid(k) = b
        bids == {bid(k) : k \in DOMAIN boxes}
        o == batchWrite(srch, [b \in bids |-> boxes[keyOf(b)]],
                        [b \in bids |-> generatePosition(w, keyOf(b)[1], s, keyOf(b)[2])])
        ids == {scan.items[i].lastID : i \in DOMAIN scan.items}
    IN  /\ Searching /\ Unfound = {}
        /\ scan' = Idle
        /\ IF o.threw \/ \E id \in ids : id = << >> \/ id[1] # "doc"
           THEN /\ phase' = "dead" /\ answer' = IF o.threw THEN <<"threw">> ELSE <<"invalid">>
                /\ UNCHANGED <<counters, updt, srch, staged>>
           ELSE /\ answer' = <<w, {id[2] : id \in ids}, UpdtCnt[w]>>
                /\ SrchCnt' = [SrchCnt EXCEPT ![w] = s]
                /\ latestUpdatedCounter' = [latestUpdatedCounter EXCEPT ![w] = UpdtCnt[w]]
                /\ srch' = o
                /\ UNCHANGED <<UpdtCnt, Access, LastIND, updt, staged, phase>>

-----------------------------------------------------------------------------
\* The setup functions; beginSetup comes first.
beginSetup ==
    /\ phase = "new" /\ scan = Idle
    /\ phase' = "setup"
    /\ setupPairs1' = EmptyMap /\ setupPairs2' = EmptyMap
    /\ UNCHANGED <<counters, updt, srch, scan, answer>>

Stage(w, i, a, d) == setupPairs2' = insert(setupPairs2, <<w, i, a>>, Doc(d))

\* setupInsert always takes access count 1, whatever the slot had before.
setupInsert(w, d) ==
    /\ phase = "setup"
    /\ SetupMixed \/ (Slot(setupPairs1, w, d) = 0 /\ \A e \in Docs : Slot(setupPairs1, w, e) >= 0)
    /\ UpdtCnt' = [UpdtCnt EXCEPT ![w] = @ + 1]
    /\ Access' = [Access EXCEPT ![w] = Larger(@, 1)]
    /\ setupPairs1' = Filled(setupPairs1, w, UpdtCnt[w] + 1, d, 1)
    /\ Stage(w, UpdtCnt[w] + 1, 1, d)
    /\ LastIND' = [LastIND EXCEPT ![w] = d]
    /\ UNCHANGED <<SrchCnt, latestUpdatedCounter, updt, srch, phase, scan, answer>>

setupRemove(w, d) ==
    LET i == Slot(setupPairs1, w, d)
    IN  /\ phase = "setup"
        /\ i > 0 => UnlistedAccess(setupPairs1, w, d) <= MaxAccess
        /\ answer' = IF i = 0 THEN <<"threw">> ELSE answer
        /\ IF i <= 0 THEN UNCHANGED <<counters, staged>>
           ELSE /\ Unlist(setupPairs1, w, d)
                /\ setupPairs1' = Unlisted(setupPairs1, w, d)
                /\ IF Moves(w, i) THEN Stage(w, i, setupPairs1[Bid0(w, d)][2] + 1, LastIND[w])
                                  ELSE UNCHANGED setupPairs2
                /\ UNCHANGED <<SrchCnt, latestUpdatedCounter>>
        /\ UNCHANGED <<updt, srch, phase, scan>>

endSetup ==
    LET bid(k) == createBid(k[1], k[2], 0, k[3])
        keyOf(b) == CHOOSE k \in DOMAIN setupPairs2 : bid(k) = b
        bids == {bid(k) : k \in DOMAIN setupPairs2}
        o == batchWrite(srch, [b \in bids |-> setupPairs2[keyOf(b)]],
                        [b \in bids |-> generatePosition(keyOf(b)[1], keyOf(b)[2], 0, keyOf(b)[3])])
    IN  /\ phase = "setup"
        /\ phase' = IF o.threw THEN "dead" ELSE "run"
        /\ answer' = IF o.threw THEN <<"threw">> ELSE answer
        /\ updt' = IF o.threw THEN updt ELSE batchInsert(updt, setupPairs1)
        /\ srch' = IF o.threw THEN srch ELSE o
        /\ UNCHANGED <<counters, staged, scan>>

Next ==
    \/ \E w \in Keywords, d \in Docs :
          add(w, d) \/ remove(w, d) \/ setupInsert(w, d) \/ setupRemove(w, d)
    \/ \E w \in Keywords : search(w)
    \/ searchRound \/ searchEnd \/ beginSetup \/ endSetup

Spec == Init /\ [][Next]_vars

-----------------------------------------------------------------------------
\* Whatever was written where, a box is only ever in the stash or in a bucket of the
\* path to the leaf that generatePosition names for it, no bucket holds more than Z,
\* and the writes left and the boxes kept never exceed the room there is.
BoxesInPlace ==
    LET leaf(k) == LET p == k \div Radix
                       q == p \div Radix
                   IN  generatePosition(k % Radix, q \div Radix, q % Radix, p % Radix)
    IN  /\ \A b \in DOMAIN srch.store : Cardinality(DOMAIN srch.store[b]) <= Z
        /\ Cardinality(Kept(srch)) + srch.emptyNodes <= Z * BucketCount(Depth)
        /\ \A k \in Kept(srch) : \A c \in Copies(srch, k) : c.pos = leaf(k)
        /\ \A b \in DOMAIN srch.store : \A k \in DOMAIN srch.store[b] :
              \E d \in 0..Depth : b = GetBoxOnPath(srch, leaf(k), d)

\* What the ORAM holds under an identifier, << >> if nothing.
Box(k) == LET copies == Copies(srch, k) IN IF copies = {} THEN << >> ELSE (CHOOSE c \in copies : TRUE).value

\* What makes the bisection find the right box.  The boxes are in place; and between
\* two calls, unless a box was lost to another path: no two copies of a box differ; map
\* and boxes agree on the document and the access count a of every slot; under the
\* current search number the slot has boxes for all access counts from its start to a
\* and none above; a is within the bound the search starts from; and the document
\* that remove would move is the last one.
SlotsReadable == BoxesInPlace /\
    (phase = "run" /\ scan = Idle /\ ~srch.damaged => \A w \in Keywords :
        /\ UpdtCnt[w] > 0 => LastIND[w] = updt[Bid1(w, UpdtCnt[w])][1]
        /\ \A k \in Kept(srch) : Cardinality(Copies(srch, k)) = 1
        /\ \A i \in 1..UpdtCnt[w] :
              LET d == updt[Bid1(w, i)][1]
                  a == updt[Bid1(w, i)][2]
                  box(k) == Box(createBid(w, i, SrchCnt[w], k))
                  start == IF box(1) # << >> /\ box(1)[1] = "at" THEN box(1)[2] ELSE 1
              IN  /\ updt[Bid0(w, d)][1] = i /\ updt[Bid0(w, d)][2] = a
                  /\ start \in 1..a /\ a <= Access[w]
                  /\ box(a) = Doc(d)
                  /\ \A k \in start..a : box(k) # << >> /\ box(k)[1] = "doc"
                  /\ \A k \in (a + 1)..(Access[w] + 1) : box(k) = << >>)

Live == [w \in Keywords |-> {d \in Docs : Slot(updt, w, d) > 0}]

Index == INSTANCE SetIndex WITH live <- Live, intact <- ~srch.damaged

\* Horus implements the index: a search answers with exactly the documents that
\* are listed, each once, through removals, re-insertions and earlier searches, it
\* never meets a box that is no document, and searching itself changes nothing.  Once
\* a write-back has gone to another path and lost a box, which only add and remove can
\* do, searches may be wrong, but still count right, and later operations still list
\* and unlist the right documents.  The setup functions load such an index.
ImplementsIndex == Index!Spec

\* Every search comes to an end: a round after the first narrows the bisection of
\* every slot that is not found yet, or leaves its interval and moves off the left
\* end, which it does not do twice in a row; no slot is ever looked up outside its
\* interval, whatever boxes are missing.
Span(it) == 2 * (it.right - it.left) + (IF it.cur = it.left THEN 1 ELSE 0)
RoundsClose ==
    [][searchRound => \A i \in Unfound :
          /\ scan.items[i].cur \in 1..Access[scan.keyword]
          /\ \/ scan.first \/ scan'.items[i].found
             \/ Span(scan'.items[i]) \in 0..(Span(scan.items[i]) - 1)]_vars
=============================================================================
