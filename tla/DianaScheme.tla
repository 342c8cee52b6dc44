---------------------------- MODULE DianaScheme -----------------------------
(***************************************************************************)
(* The data of Diana_del (diana_client.hpp, diana_server.hpp and           *)
(* DianaInterface.cpp) and what each function does to it.                  *)
(*                                                                         *)
(* A keyword's entries live under a key, the keyword followed by a number  *)
(* that a cleaning search increments.  The insertion instance stores       *)
(* document identifiers, the deletion instance stores hashes of key and    *)
(* document; delCntMap leads from such a hash to the counter of the        *)
(* insertion it revokes, which the search then leaves out of its token     *)
(* list.  Hashes and pseudo-random tokens are their inputs.                *)
(***************************************************************************)
EXTENDS Naturals, Sequences, FiniteSets, SequencesExt

CONSTANTS
    Keywords, Docs,
    LeafOrder(_, _)  \* LeafOrder(n, D): the leaves the server derives for n
                     \* entries of which D are left out, in order (TokenTree)

\* keyword + to_string(counter); "" is what looking up an unknown keyword yields.
Key(w, c) == [word |-> w, no |-> c]
NoKey == [word |-> "", no |-> 0]

Empty == [x \in {} |-> 0]
Put(f, x, v) == [y \in DOMAIN f \cup {x} |-> IF y = x THEN v ELSE f[y]]

\* What a loop that skips some positions of s collects: s at the positions J.
Nth(J, p) == CHOOSE j \in J : Cardinality({i \in J : i <= j}) = p
Subsequence(s, J) == [p \in 1..Cardinality(J) |-> s[Nth(J, p)]]

-----------------------------------------------------------------------------
\* The client: keywordsToken, keywordsCounter and ramCounter of both instances.
\* The deletion instance keeps its own derivation key only in the process that
\* created the key files; later ones give it the saved key of the other instance.
NewClient(delKey) ==
    [token |-> Empty, counter |-> Empty, ins |-> Empty, del |-> Empty, delKey |-> delKey]

\* insertKeyword and deleteKeyword: find the key of w, or start with number 1.
KeyFor(c, w) == IF w \in DOMAIN c.token THEN c.token[w] ELSE Key(w, 1)
Registered(c, w) ==
    IF w \in DOMAIN c.token THEN c
    ELSE [c EXCEPT !.token = Put(@, w, Key(w, 1)), !.counter = Put(@, w, 1)]

\* ramCounter holds the last counter used: entries so far, and the next counter.
Count(ram, key) == IF key \in DOMAIN ram THEN ram[key] + 1 ELSE 0
IncrementOnce(ram, key) == IF key \in DOMAIN ram THEN ram ELSE Put(ram, key, 0) \* mutant
Increment(ram, key) == Put(ram, key, Count(ram, key))

Insertion(c, w, d) == [key |-> KeyFor(c, w), cnt |-> Count(c.ins, KeyFor(c, w)), doc |-> d]
AfterInsertion(c, w) == [Registered(c, w) EXCEPT !.ins = Increment(@, KeyFor(c, w))]

Deletion(c, w, d) ==
    [token |-> <<c.delKey, KeyFor(c, w), Count(c.del, KeyFor(c, w))>>,
     target |-> <<KeyFor(c, w), d>>]
AfterDeletion(c, w) == [Registered(c, w) EXCEPT !.del = Increment(@, KeyFor(c, w))]

\* searchKeyword: keywordsToken[keyword] creates the entry it does not find.
LookedUp(c, w) ==
    IF w \in DOMAIN c.token THEN c ELSE [c EXCEPT !.token = Put(@, w, NoKey)]

\* Cleaning: the keyword moves on to the next key, under which the search results
\* are inserted again, in the order in which they were found.
NextNoSame(c, w) == IF w \in DOMAIN c.counter THEN c.counter[w] ELSE 1     \* mutant
NextNo(c, w) == (IF w \in DOMAIN c.counter THEN c.counter[w] ELSE 0) + 1
Renewed(c, w) ==
    [c EXCEPT !.counter = Put(@, w, NextNo(c, w)),
              !.token = Put(@, w, Key(w, NextNo(c, w)))]
Reinsertions(c, w, res) ==
    LET key == KeyFor(Renewed(c, w), w)
    IN  [i \in DOMAIN res |-> [key |-> key, cnt |-> Count(c.ins, key) + i - 1, doc |-> res[i]]]
AfterReinsertions(c, w, res) ==
    LET new == Renewed(c, w)
    IN  IF res = <<>> THEN new
        ELSE [new EXCEPT !.ins = Put(@, new.token[w], Count(@, new.token[w]) + Len(res) - 1)]

-----------------------------------------------------------------------------
\* The server: the tables of both instances, delCntMap, and whether it is set up.
NewServer(up) == [up |-> up, ins |-> Empty, del |-> Empty, cnt |-> Empty]

\* RocksDB overwrites, std::map::insert does not.
Update(table, token, v, usehdd) ==
    IF usehdd \/ token \notin DOMAIN table THEN Put(table, token, v) ELSE table

InsertNext(s, r, usehdd) ==                                                \* mutant
    [s EXCEPT !.ins = Update(@, <<r.key, r.cnt>>, r.doc, usehdd),
              !.cnt = Put(@, <<r.key, r.doc>>, r.cnt + 1)]
Insert(s, r, usehdd) ==
    [s EXCEPT !.ins = Update(@, <<r.key, r.cnt>>, r.doc, usehdd),
              !.cnt = Put(@, <<r.key, r.doc>>, r.cnt)]
InsertAllTables(s, reqs, usehdd) ==                                        \* mutant
    FoldLeft(LAMBDA t, r : [Insert(t, r, usehdd) EXCEPT !.cnt = t.cnt], s, reqs)
\* One insertion after the other; their counters differ, their documents may not,
\* and then the last one is in delCntMap.
InsertAll(s, reqs, usehdd) ==
    LET token(i) == <<reqs[i].key, reqs[i].cnt>>
        hash(i)  == <<reqs[i].key, reqs[i].doc>>
        tokens   == {token(i) : i \in DOMAIN reqs}
        hashes   == {hash(i) : i \in DOMAIN reqs}
        at(t)    == CHOOSE i \in DOMAIN reqs : token(i) = t
        last(h)  == Max({i \in DOMAIN reqs : hash(i) = h})
    IN  [s EXCEPT
            !.ins = [t \in DOMAIN @ \cup tokens |->
                        IF t \in tokens /\ (usehdd \/ t \notin DOMAIN @)
                        THEN reqs[at(t)].doc ELSE @[t]],
            !.cnt = [h \in DOMAIN @ \cup hashes |->
                        IF h \in hashes THEN reqs[last(h)].cnt ELSE @[h]]]
Delete(s, r, usehdd) == [s EXCEPT !.del = Update(@, r.token, r.target, usehdd)]

\* searchDelete: every hash stored under the key, then its counter in delCntMap.
\* A hash that no insertion has put there reads as a block of zeros, which the
\* client cannot decrypt.
Targets(s, delKey, key, n) ==
    {s.del[t] : t \in {<<delKey, key, i>> : i \in 0..(n - 1)} \cap DOMAIN s.del}
Revoked(s, targets) == {s.cnt[k] : k \in targets \cap DOMAIN s.cnt}
Unresolved(s, targets) == ~(targets \subseteq DOMAIN s.cnt)

\* covering_list with deletions: the array has the leaves of the smallest subtree
\* that holds n, a power of two, and for n = 1 any deletion leaves nothing.
OutOfArray(n, dels) == n > 0 /\ \E i \in dels, k \in 0..n : 2^k \in n..i
LeftOut(n, dels) == IF n = 1 /\ dels # {} THEN {0} ELSE dels \cap 0..(n - 1)

\* searchInsert: the documents found at the leaves of the request.
Found(s, key, n, dels) ==
    LET leaves == LeafOrder(n, dels)
        hits == Subsequence(leaves, {j \in DOMAIN leaves : <<key, leaves[j]>> \in DOMAIN s.ins})
    IN  [j \in DOMAIN hits |-> s.ins[<<key, hits[j]>>]]

\* Entries exist but all are left out: the server walks off an empty token list
\* (DianaSearch!walkOffEmptyList).
NothingLeft(n, dels) == n > 0 /\ 0..(n - 1) \subseteq dels
=============================================================================
