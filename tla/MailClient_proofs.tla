--------------------------- MODULE MailClient_proofs ---------------------------
(* Proofs about MailClient: for every number of threads, labels, requests under *)
(* way and clicks, the list of the mailbox page holds no thread twice, it holds *)
(* threads of the label it shows unless the user left another label with a      *)
(* request under way, and the signs of loading have a request that ends them.   *)
EXTENDS MailClient, FiniteSetTheorems, WellFoundedInduction, TLAPS

-------------------------------------------------------------------------------
(* The inductive invariant. An answer on its way is a page of the label it was   *)
(* asked for, without repetitions; unless the history says so, every request     *)
(* that may change the list is of the label that is shown; and there is a        *)
(* request behind each sign of loading.                                          *)

Distinct(seq) == \A i, j \in DOMAIN seq : seq[i].id = seq[j].id => i = j

AllOf(seq, l) == \A i \in DOMAIN seq : seq[i].of = l

Answers == [threads: Seq(Copy), next: Threads \cup {Nothing}, more: BOOLEAN]

AnswerOK(p, l) == p \in Answers /\ Distinct(p.threads) /\ AllOf(p.threads, l)

LoadOK(q) ==
    /\ q \in [kind: {"load", "more"}, served: BOOLEAN, label: Labels,
              cursor: Threads \cup {Nothing}, page: Answers \cup {Nothing}]
    /\ q.served => AnswerOK(q.page, q.label)

UpdateOK(q) ==
    q \in [kind: {"update"}, served: BOOLEAN, thread: Threads, read: BOOLEAN,
           by: {"user", "effect"}]

MoveOK(q) ==
    q \in [kind: {"move"}, served: BOOLEAN, thread: Threads, to: Labels, label: Labels]

RequestOK(q) == q = Idle \/ LoadOK(q) \/ UpdateOK(q) \/ MoveOK(q)

\* Requests r, one in each slot.
RequestsOK(r) == DOMAIN r = Slots /\ \A s \in Slots : RequestOK(r[s])

\* Requests whose answer may change what is listed, all of label l.
AskedFor(r, l) ==
    \A s \in Slots : r[s].kind \in {"load", "more", "move"} => r[s].label = l

LoadUnderWay(r) == \E s \in Slots : r[s].kind = "load"

MoreUnderWay(r, b) ==
    /\ b => \E s \in Slots : r[s].kind = "more"
    /\ \A s \in Slots : r[s].kind = "more" => b
    /\ \A s, u \in Slots : r[s].kind = "more" /\ r[u].kind = "more" => s = u

PageInv ==
    /\ TypeOK
    /\ RequestsOK(request)
    /\ Distinct(list)
    /\ ~crossed => AllOf(list, label) /\ AskedFor(request, label)
    /\ loading => LoadUnderWay(request)
    /\ MoreUnderWay(request, loadingMore)

-------------------------------------------------------------------------------
(* Numbers: the least of a set, and the k-th. *)

\* A set of natural numbers that is not empty has a least one.
LEMMA LeastExists ==
    ASSUME NEW S, S \subseteq Nat, S # {}
    PROVE  \E m \in S : \A n \in S : m <= n
<1> DEFINE R == OpToRel(<, Nat)
<1>1. IsWellFoundedOn(R, Nat) BY NatLessThanWellFounded
<1>2. \A x, y \in Nat : y < x => <<y, x>> \in R BY DEF OpToRel
<1> HIDE DEF R
<1>3. PICK x \in S : \A y \in S : ~ (<<y, x>> \in R) BY <1>1, WFMin
<1>4. ASSUME NEW y \in S PROVE x <= y
  <2>1. x \in Nat /\ y \in Nat OBVIOUS
  <2>2. ~(y < x) BY <1>2, <1>3, <2>1
  <2> QED BY <2>1, <2>2
<1> QED BY <1>4

Below(S, n) == Cardinality({m \in S : m < n})

\* Below a number that is one higher there is one number more, if it is in the set.
LEMMA BelowNext ==
    ASSUME NEW S, IsFiniteSet(S), S \subseteq Nat, NEW n \in Nat
    PROVE  /\ Below(S, n) \in Nat
           /\ Below(S, n + 1) = Below(S, n) + (IF n \in S THEN 1 ELSE 0)
<1> DEFINE B == {m \in S : m < n}
           C == {m \in S : m < n + 1}
<1>1. B \in SUBSET S /\ n \notin B OBVIOUS
<1>2. C = IF n \in S THEN B \cup {n} ELSE B
  <2>1. \A m \in S : m < n + 1 <=> m < n \/ m = n OBVIOUS
  <2> QED BY <2>1
<1>3. Below(S, n) = Cardinality(B) /\ Below(S, n + 1) = Cardinality(C) BY DEF Below
<1> HIDE DEF B, C
<1>4. IsFiniteSet(B) BY <1>1, FS_Subset
<1>5. Cardinality(B) \in Nat BY <1>4, FS_CardinalityType
<1>6. Cardinality(B \cup {n}) = Cardinality(B) + 1 BY <1>1, <1>4, FS_AddElement
<1> QED BY <1>2, <1>3, <1>5, <1>6

\* A finite set of numbers has a k-th one, up to its size: the least count of numbers
\* below that reaches k is reached by it.
LEMMA NthExists ==
    ASSUME NEW S, NEW b \in Nat, S \subseteq 0 .. b, NEW k \in 1 .. Cardinality(S)
    PROVE  Nth(S, k) \in S /\ Below(S, Nth(S, k)) = k - 1
<1> DEFINE T == {n \in Nat : Below(S, n) >= k}
<1>1. IsFiniteSet(S)
  <2>1. IsFiniteSet(0 .. b) BY FS_Interval
  <2> QED BY <2>1, FS_Subset
<1>2. S \subseteq Nat /\ \A m \in S : m \in Nat /\ m <= b OBVIOUS
<1>3. Cardinality(S) \in Nat BY <1>1, FS_CardinalityType
<1>4. Below(S, b + 1) = Cardinality(S)
  <2>1. \A m \in S : m < b + 1 BY <1>2
  <2>2. {m \in S : m < b + 1} = S BY <2>1
  <2> QED BY <2>2 DEF Below
<1>5. b + 1 \in T BY <1>3, <1>4
<1>6. Below(S, 0) = 0
  <2>1. \A m \in S : ~(m < 0) BY <1>2
  <2>2. {m \in S : m < 0} = {} BY <2>1
  <2> QED BY <2>2, FS_EmptySet DEF Below
<1>7. \A n \in Nat : /\ Below(S, n) \in Nat
                     /\ Below(S, n + 1) = Below(S, n) + (IF n \in S THEN 1 ELSE 0)
  BY <1>1, <1>2, BelowNext
<1>8. T \subseteq Nat /\ T # {} BY <1>5
<1>9. PICK t \in T : \A n \in T : t <= n
  <2> HIDE DEF T
  <2> QED BY <1>8, LeastExists
<1>10. t \in Nat /\ Below(S, t) >= k OBVIOUS
<1>11. t # 0 /\ t - 1 \in Nat BY <1>6, <1>10
<1>12. ~(Below(S, t - 1) >= k)
  <2>1. t - 1 \notin T BY <1>9, <1>11
  <2> QED BY <1>11, <2>1
<1>13. Below(S, t) = Below(S, t - 1) + (IF t - 1 \in S THEN 1 ELSE 0)
  <2>1. t = (t - 1) + 1 BY <1>10
  <2>2. Below(S, (t - 1) + 1) = Below(S, t - 1) + (IF t - 1 \in S THEN 1 ELSE 0) BY <1>7, <1>11
  <2> QED BY <2>1, <2>2
<1>14. Below(S, t - 1) \in Nat BY <1>7, <1>11
<1>15. t - 1 \in S /\ Below(S, t - 1) = k - 1 BY <1>10, <1>12, <1>13, <1>14
<1>16. \E n \in S : Below(S, n) = k - 1 BY <1>15
<1> QED BY <1>16 DEF Nth, Below

-------------------------------------------------------------------------------
(* Lists. *)

\* What a filter keeps are members of the list, each at most as often as it was there.
LEMMA FilteredMembers ==
    ASSUME NEW seq \in Seq(Copy), NEW P \in SUBSET DOMAIN seq
    PROVE  /\ Filtered(seq, P) \in Seq(Copy)
           /\ \A k \in DOMAIN Filtered(seq, P) : \E i \in P : Filtered(seq, P)[k] = seq[i]
           /\ Distinct(seq) => Distinct(Filtered(seq, P))
<1> DEFINE n == Cardinality(P)
           at(k) == Nth(P, k)
           out == Filtered(seq, P)
<1>1. Len(seq) \in Nat /\ DOMAIN seq = 1 .. Len(seq) OBVIOUS
<1>2. P \subseteq 0 .. Len(seq) BY <1>1
<1>3. IsFiniteSet(P)
  <2>1. IsFiniteSet(0 .. Len(seq)) BY <1>1, FS_Interval
  <2> QED BY <1>2, <2>1, FS_Subset
<1>4. n \in Nat BY <1>3, FS_CardinalityType
<1>5. \A k \in 1 .. n : at(k) \in P /\ Below(P, at(k)) = k - 1 BY <1>1, <1>2, NthExists
<1> HIDE DEF at
<1>6. out = [k \in 1 .. n |-> seq[at(k)]] BY DEF Filtered, at
<1> HIDE DEF out, n
<1>7. out \in Seq(Copy)
  <2>1. \A i \in DOMAIN seq : seq[i] \in Copy OBVIOUS
  <2>2. \A k \in 1 .. n : at(k) \in DOMAIN seq BY <1>5
  <2>3. \A k \in 1 .. n : seq[at(k)] \in Copy BY <2>1, <2>2
  <2> QED BY <1>4, <1>6, <2>3
<1>8. \A k \in DOMAIN out : \E i \in P : out[k] = seq[i] BY <1>5, <1>6
<1>9. ASSUME Distinct(seq) PROVE Distinct(out)
  <2>1. ASSUME NEW i \in DOMAIN out, NEW j \in DOMAIN out, out[i].id = out[j].id
        PROVE  i = j
    <3>1. i \in 1 .. n /\ j \in 1 .. n BY <1>6
    <3>2. at(i) \in DOMAIN seq /\ at(j) \in DOMAIN seq BY <1>5, <3>1
    <3>3. seq[at(i)].id = seq[at(j)].id BY <1>6, <2>1, <3>1
    <3>4. at(i) = at(j) BY <1>9, <3>2, <3>3 DEF Distinct
    <3>5. i - 1 = j - 1 BY <1>5, <3>1, <3>4
    <3> QED BY <1>4, <3>1, <3>5
  <2> QED BY <2>1 DEF Distinct
<1> QED BY <1>7, <1>8, <1>9 DEF out

\* removeThread leaves a list of the same label, without repetitions.
LEMMA RemovedOK ==
    ASSUME NEW seq \in Seq(Copy), Distinct(seq), NEW t, NEW l
    PROVE  /\ Removed(seq, t) \in Seq(Copy) /\ Distinct(Removed(seq, t))
           /\ AllOf(seq, l) => AllOf(Removed(seq, t), l)
<1> DEFINE P == {i \in DOMAIN seq : seq[i].id # t}
<1>1. P \in SUBSET DOMAIN seq OBVIOUS
<1>2. Removed(seq, t) = Filtered(seq, P) BY DEF Removed
<1> HIDE DEF P
<1>3. /\ Filtered(seq, P) \in Seq(Copy) /\ Distinct(Filtered(seq, P))
      /\ \A k \in DOMAIN Filtered(seq, P) : \E i \in P : Filtered(seq, P)[k] = seq[i]
  BY <1>1, FilteredMembers
<1>4. AllOf(seq, l) => AllOf(Filtered(seq, P), l) BY <1>1, <1>3 DEF AllOf
<1> QED BY <1>2, <1>3, <1>4

\* appendThreads adds a page without repetitions to a list without repetitions: the
\* threads that are in the list are left out.
LEMMA AppendedOK ==
    ASSUME NEW seq \in Seq(Copy), Distinct(seq), NEW new \in Seq(Copy), Distinct(new), NEW l
    PROVE  /\ Appended(seq, new) \in Seq(Copy) /\ Distinct(Appended(seq, new))
           /\ AllOf(seq, l) /\ AllOf(new, l) => AllOf(Appended(seq, new), l)
<1> DEFINE P == {i \in DOMAIN new : new[i].id \notin Ids(seq)}
           kept == Filtered(new, P)
           all  == seq \o kept
<1>1. P \in SUBSET DOMAIN new /\ \A i \in P : new[i].id \notin Ids(seq) OBVIOUS
<1>2. Appended(seq, new) = all BY DEF Appended
<1> HIDE DEF P
<1>3. /\ kept \in Seq(Copy) /\ Distinct(kept)
      /\ \A k \in DOMAIN kept : \E i \in P : kept[k] = new[i]
  BY <1>1, FilteredMembers
<1> HIDE DEF kept
<1>4. \A k \in DOMAIN kept : kept[k].id \notin Ids(seq) BY <1>1, <1>3
<1>5. all \in Seq(Copy) BY <1>3
<1>6. /\ Len(seq) \in Nat /\ Len(kept) \in Nat /\ DOMAIN all = 1 .. Len(seq) + Len(kept)
      /\ DOMAIN seq = 1 .. Len(seq) /\ DOMAIN kept = 1 .. Len(kept)
  BY <1>3
<1>7. \A i \in DOMAIN all : \/ i \in DOMAIN seq /\ all[i] = seq[i]
                            \/ /\ i \notin DOMAIN seq /\ i - Len(seq) \in DOMAIN kept
                               /\ all[i] = kept[i - Len(seq)]
  <2> TAKE i \in DOMAIN all
  <2>1. CASE i <= Len(seq)
    <3>1. i \in 1 .. Len(seq) BY <1>6, <2>1
    <3>2. all[i] = seq[i] BY <1>3, <3>1
    <3> QED BY <1>6, <3>1, <3>2
  <2>2. CASE ~(i <= Len(seq))
    <3>1. i \in 1 .. Len(seq) + Len(kept) BY <1>6
    <3>2. i - Len(seq) \in 1 .. Len(kept) /\ i \notin 1 .. Len(seq) BY <1>6, <2>2, <3>1
    <3>3. all[i] = kept[i - Len(seq)] BY <1>3, <1>6, <2>2, <3>1
    <3> QED BY <1>6, <3>2, <3>3
  <2> QED BY <2>1, <2>2
<1> HIDE DEF all
<1>8. \A i \in DOMAIN seq : seq[i].id \in Ids(seq) BY DEF Ids
<1>9. Distinct(all)
  <2>1. ASSUME NEW i \in DOMAIN all, NEW j \in DOMAIN all, all[i].id = all[j].id
        PROVE  i = j
    <3>1. CASE i \in DOMAIN seq /\ j \in DOMAIN seq BY <1>7, <2>1, <3>1 DEF Distinct
    <3>2. CASE i \notin DOMAIN seq /\ j \notin DOMAIN seq
      <4>1. /\ i - Len(seq) \in DOMAIN kept /\ j - Len(seq) \in DOMAIN kept
            /\ kept[i - Len(seq)].id = kept[j - Len(seq)].id
        BY <1>7, <2>1, <3>2
      <4>2. i - Len(seq) = j - Len(seq) BY <1>3, <4>1 DEF Distinct
      <4>3. i \in Nat /\ j \in Nat BY <1>6
      <4> QED BY <1>6, <4>2, <4>3
    <3>3. CASE i \in DOMAIN seq /\ j \notin DOMAIN seq BY <1>4, <1>7, <1>8, <2>1, <3>3
    <3>4. CASE i \notin DOMAIN seq /\ j \in DOMAIN seq BY <1>4, <1>7, <1>8, <2>1, <3>4
    <3> QED BY <3>1, <3>2, <3>3, <3>4
  <2> QED BY <2>1 DEF Distinct
<1>10. AllOf(seq, l) /\ AllOf(new, l) => AllOf(all, l) BY <1>1, <1>3, <1>7 DEF AllOf
<1> QED BY <1>2, <1>5, <1>9, <1>10

\* patchThread changes the flags of a list, nothing else.
LEMMA PatchedOK ==
    ASSUME NEW seq \in Seq(Copy), NEW t, NEW b \in BOOLEAN
    PROVE  /\ Patched(seq, t, b) \in Seq(Copy)
           /\ DOMAIN Patched(seq, t, b) = DOMAIN seq
           /\ \A i \in DOMAIN seq : /\ Patched(seq, t, b)[i].id = seq[i].id
                                    /\ Patched(seq, t, b)[i].of = seq[i].of
           /\ Distinct(seq) => Distinct(Patched(seq, t, b))
           /\ \A l : AllOf(seq, l) => AllOf(Patched(seq, t, b), l)
<1> DEFINE out == Patched(seq, t, b)
<1>1. Len(seq) \in Nat /\ DOMAIN seq = 1 .. Len(seq) OBVIOUS
<1>2. \A i \in DOMAIN seq : seq[i] \in Copy OBVIOUS
<1>3. /\ DOMAIN out = DOMAIN seq
      /\ \A i \in DOMAIN seq : out[i] = IF seq[i].id = t THEN [seq[i] EXCEPT !.read = b]
                                        ELSE seq[i]
  BY DEF Patched
<1>4. out = [i \in 1 .. Len(seq) |-> out[i]] BY <1>1 DEF Patched
<1>5. \A c \in Copy : /\ [c EXCEPT !.read = b] \in Copy
                      /\ [c EXCEPT !.read = b].id = c.id
                      /\ [c EXCEPT !.read = b].of = c.of
  BY DEF Copy
<1> HIDE DEF out
<1>6. \A i \in DOMAIN seq : /\ out[i] \in Copy
                            /\ out[i].id = seq[i].id /\ out[i].of = seq[i].of
  BY <1>2, <1>3, <1>5
<1>7. out \in Seq(Copy) BY <1>1, <1>4, <1>6
<1>8. Distinct(seq) => Distinct(out) BY <1>3, <1>6 DEF Distinct
<1>9. \A l : AllOf(seq, l) => AllOf(out, l) BY <1>3, <1>6 DEF AllOf
<1> QED BY <1>3, <1>6, <1>7, <1>8, <1>9 DEF out

-------------------------------------------------------------------------------
(* Requests and pages. *)

\* A request that is sent takes a slot that was free.
LEMMA SentTakesFree ==
    ASSUME NEW r, DOMAIN r = Slots, \E s \in Slots : r[s].kind = "idle", NEW q
    PROVE  \E f \in Slots : r[f].kind = "idle" /\ Sent(r, q) = [r EXCEPT ![f] = q]
<1> DEFINE free == {s \in Slots : r[s].kind = "idle"}
<1>1. free \subseteq Nat /\ free # {} BY ClientAssumption
<1> HIDE DEF free
<1>2. \E m \in free : \A u \in free : m <= u BY <1>1, LeastExists
<1> DEFINE f == CHOOSE s \in free : \A u \in free : s <= u
<1>3. f \in free BY <1>2
<1>4. Sent(r, q) = [r EXCEPT ![f] = q] BY DEF Sent, free
<1> QED BY <1>3, <1>4 DEF free

\* What the mailbox service answers is a page of the label, without repetitions.
LEMMA PageIsAnswer ==
    ASSUME TypeOK, NEW l \in Labels, NEW c \in Threads \cup {Nothing}
    PROVE  AnswerOK(Page(l, c), l)
<1> DEFINE older == Older(l, c)
           size  == Cardinality(older)
           last  == IF size > PageSize THEN PageSize ELSE size
           ids   == PageIds(older)
           page  == Page(l, c)
<1>1. MaxThread \in Nat /\ PageSize \in Nat \ {0} BY ClientAssumption
<1>2. older \subseteq 0 .. MaxThread /\ older \subseteq Threads BY <1>1 DEF Older, Threads
<1> HIDE DEF older
<1>3. IsFiniteSet(older)
  <2>1. IsFiniteSet(0 .. MaxThread) BY <1>1, FS_Interval
  <2> QED BY <1>2, <2>1, FS_Subset
<1>4. size \in Nat BY <1>3, FS_CardinalityType
<1>5. ids = [k \in 1 .. last |-> Nth(older, size + 1 - k)] BY DEF PageIds
<1>6. last \in Nat /\ last <= size BY <1>1, <1>4
<1>7. \A k \in 1 .. size : Nth(older, k) \in older /\ Below(older, Nth(older, k)) = k - 1
  BY <1>1, <1>2, NthExists
<1> HIDE DEF size, last, ids
<1>8. \A k \in 1 .. last : size + 1 - k \in 1 .. size BY <1>4, <1>6
<1>9. \A k \in 1 .. last : ids[k] \in Threads /\ Below(older, ids[k]) = size - k
  <2> TAKE k \in 1 .. last
  <2>1. ids[k] = Nth(older, size + 1 - k) BY <1>5
  <2>2. size + 1 - k \in 1 .. size BY <1>8
  <2>3. Nth(older, size + 1 - k) \in older BY <1>7, <2>2
  <2>4. Below(older, Nth(older, size + 1 - k)) = (size + 1 - k) - 1 BY <1>7, <2>2
  <2>5. (size + 1 - k) - 1 = size - k BY <1>4, <1>6
  <2> QED BY <1>2, <2>1, <2>3, <2>4, <2>5
<1>10. \A k \in 1 .. last : mailbox[ids[k]].read \in BOOLEAN
  <2>1. \A x \in Threads : mailbox[x].read \in BOOLEAN BY DEF TypeOK
  <2> QED BY <1>9, <2>1
<1>11. PICK n \in Threads \cup {Nothing}, m \in BOOLEAN : page = PageOf(l, ids, n, m)
  <2>1. CASE size > PageSize
    <3>1. PageSize \in 1 .. last BY <1>1, <2>1 DEF last
    <3>2. ids[PageSize] \in Threads BY <1>9, <3>1
    <3>3. page = PageOf(l, ids, ids[PageSize], TRUE) BY <2>1 DEF Page, ids, size, older
    <3> QED BY <3>2, <3>3
  <2>2. CASE ~(size > PageSize)
    <3>1. (size > PageSize) = FALSE BY <2>2
    <3>2. page = PageOf(l, ids, IF size > PageSize THEN ids[PageSize] ELSE Nothing,
                        size > PageSize)
      BY DEF Page, ids, size, older
    <3>3. page = PageOf(l, ids, Nothing, FALSE) BY <3>1, <3>2
    <3> QED BY <3>3
  <2> QED BY <2>1, <2>2
<1> HIDE DEF page
<1> DEFINE threads == [i \in DOMAIN ids |-> [id |-> ids[i], of |-> l,
                                             read |-> mailbox[ids[i]].read]]
<1>12. DOMAIN ids = 1 .. last BY <1>5
<1>13. threads \in Seq(Copy) /\ DOMAIN threads = 1 .. last
  <2>1. \A i \in 1 .. last : [id |-> ids[i], of |-> l, read |-> mailbox[ids[i]].read] \in Copy
    BY <1>9, <1>10 DEF Copy
  <2> QED BY <1>6, <1>12, <2>1
<1>14. \A i \in 1 .. last : threads[i].id = ids[i] /\ threads[i].of = l BY <1>12
<1>15. page.threads = threads /\ page \in Answers
  <2>1. page = [threads |-> threads, next |-> n, more |-> m] BY <1>11 DEF PageOf
  <2> HIDE DEF threads
  <2> QED BY <1>13, <2>1 DEF Answers
<1> HIDE DEF threads
<1>16. Distinct(threads)
  <2>1. ASSUME NEW i \in DOMAIN threads, NEW j \in DOMAIN threads,
               threads[i].id = threads[j].id
        PROVE  i = j
    <3>1. i \in 1 .. last /\ j \in 1 .. last /\ ids[i] = ids[j] BY <1>13, <1>14, <2>1
    <3>2. size - i = size - j BY <1>9, <3>1
    <3> QED BY <1>4, <1>6, <3>1, <3>2
  <2> QED BY <2>1 DEF Distinct
<1>17. AllOf(threads, l) BY <1>13, <1>14 DEF AllOf
<1> QED BY <1>15, <1>16, <1>17 DEF AnswerOK, page

-------------------------------------------------------------------------------
(* What changes when one slot is given another request, and when the page renders. *)

\* r2 is r with request q in slot f.
Replaced(r, r2, f, q) ==
    DOMAIN r2 = Slots /\ \A s \in Slots : r2[s] = IF s = f THEN q ELSE r[s]

LEMMA ExceptReplaces ==
    ASSUME NEW r, DOMAIN r = Slots, NEW f \in Slots, NEW q
    PROVE  Replaced(r, [r EXCEPT ![f] = q], f, q)
BY DEF Replaced

LEMMA SentReplaces ==
    ASSUME NEW r, RequestsOK(r), \E s \in Slots : r[s].kind = "idle", NEW q
    PROVE  \E f \in Slots : r[f].kind = "idle" /\ Replaced(r, Sent(r, q), f, q)
<1>1. DOMAIN r = Slots BY DEF RequestsOK
<1>2. PICK f \in Slots : r[f].kind = "idle" /\ Sent(r, q) = [r EXCEPT ![f] = q]
  BY <1>1, SentTakesFree
<1>3. Replaced(r, Sent(r, q), f, q) BY <1>1, <1>2, ExceptReplaces
<1> QED BY <1>2, <1>3

LEMMA ReplacedOK ==
    ASSUME NEW r, NEW r2, NEW f \in Slots, NEW q, Replaced(r, r2, f, q)
    PROVE  /\ RequestsOK(r) /\ RequestOK(q) => RequestsOK(r2)
           /\ \A l : /\ AskedFor(r, l)
                     /\ q.kind \in {"load", "more", "move"} => q.label = l
                     => AskedFor(r2, l)
           /\ LoadUnderWay(r) /\ r[f].kind # "load" => LoadUnderWay(r2)
           /\ q.kind = "load" => LoadUnderWay(r2)
           /\ \A b \in BOOLEAN : /\ MoreUnderWay(r, b)
                                 /\ r[f].kind # "more" /\ q.kind # "more"
                                 => MoreUnderWay(r2, b)
           /\ MoreUnderWay(r, FALSE) /\ q.kind = "more" => MoreUnderWay(r2, TRUE)
           /\ \A b \in BOOLEAN : /\ MoreUnderWay(r, b)
                                 /\ r[f].kind = "more" /\ q.kind # "more"
                                 => MoreUnderWay(r2, FALSE)
<1> USE DEF Replaced
<1>1. RequestsOK(r) /\ RequestOK(q) => RequestsOK(r2) BY DEF RequestsOK
<1>2. \A l : AskedFor(r, l) /\ (q.kind \in {"load", "more", "move"} => q.label = l)
             => AskedFor(r2, l)
  BY DEF AskedFor
<1>3. LoadUnderWay(r) /\ r[f].kind # "load" => LoadUnderWay(r2) BY DEF LoadUnderWay
<1>4. q.kind = "load" => LoadUnderWay(r2) BY DEF LoadUnderWay
<1>5. ASSUME NEW b \in BOOLEAN, MoreUnderWay(r, b), r[f].kind # "more", q.kind # "more"
      PROVE  MoreUnderWay(r2, b)
  BY <1>5 DEF MoreUnderWay
<1>6. ASSUME MoreUnderWay(r, FALSE), q.kind = "more" PROVE MoreUnderWay(r2, TRUE)
  BY <1>6 DEF MoreUnderWay
<1>7. ASSUME NEW b \in BOOLEAN, MoreUnderWay(r, b), r[f].kind = "more", q.kind # "more"
      PROVE  MoreUnderWay(r2, FALSE)
  BY <1>7 DEF MoreUnderWay
<1> QED BY <1>1, <1>2, <1>3, <1>4, <1>5, <1>6, <1>7

\* A request that asks for nothing that is listed, in a slot that was free.
LEMMA FreeReplaced ==
    ASSUME NEW r, RequestsOK(r), NEW r2, NEW f \in Slots, r[f].kind = "idle",
           NEW q, RequestOK(q), q.kind = "update", Replaced(r, r2, f, q)
    PROVE  /\ RequestsOK(r2)
           /\ \A l : AskedFor(r, l) => AskedFor(r2, l)
           /\ LoadUnderWay(r) => LoadUnderWay(r2)
           /\ \A b \in BOOLEAN : MoreUnderWay(r, b) => MoreUnderWay(r2, b)
<1>1. r[f].kind # "load" /\ r[f].kind # "more" OBVIOUS
<1>2. q.kind \notin {"load", "more", "move"} /\ q.kind # "more" OBVIOUS
<1>3. RequestsOK(r2) BY ReplacedOK
<1>4. \A l : AskedFor(r, l) => AskedFor(r2, l) BY <1>2, ReplacedOK
<1>5. LoadUnderWay(r) => LoadUnderWay(r2) BY <1>1, ReplacedOK
<1>6. ASSUME NEW b \in BOOLEAN, MoreUnderWay(r, b) PROVE MoreUnderWay(r2, b)
  BY <1>1, <1>2, <1>6 DEF MoreUnderWay, Replaced
<1> QED BY <1>3, <1>4, <1>5, <1>6

\* The kinds of the requests that are sent.
LEMMA NewRequests ==
    /\ RequestOK(Idle) /\ Idle.kind = "idle"
    /\ \A l \in Labels : /\ RequestOK(Load(l))
                         /\ Load(l).kind = "load" /\ Load(l).label = l
    /\ \A l \in Labels, c \in Threads : /\ RequestOK(More(l, c))
                                        /\ More(l, c).kind = "more" /\ More(l, c).label = l
    /\ \A t \in Threads, b \in BOOLEAN, by \in {"user", "effect"} :
          RequestOK(Update(t, b, by)) /\ Update(t, b, by).kind = "update"
    /\ \A t \in Threads, l, m \in Labels :
          /\ RequestOK(Move(t, l, m))
          /\ Move(t, l, m).kind = "move" /\ Move(t, l, m).label = m
<1>1. RequestOK(Idle) /\ Idle.kind = "idle" BY DEF RequestOK, Idle
<1>2. ASSUME NEW l \in Labels
      PROVE  RequestOK(Load(l)) /\ Load(l).kind = "load" /\ Load(l).label = l
  BY DEF RequestOK, LoadOK, Load
<1>3. ASSUME NEW l \in Labels, NEW c \in Threads
      PROVE  RequestOK(More(l, c)) /\ More(l, c).kind = "more" /\ More(l, c).label = l
  BY DEF RequestOK, LoadOK, More
<1>4. ASSUME NEW t \in Threads, NEW b \in BOOLEAN, NEW by \in {"user", "effect"}
      PROVE  RequestOK(Update(t, b, by)) /\ Update(t, b, by).kind = "update"
  BY DEF RequestOK, UpdateOK, Update
<1>5. ASSUME NEW t \in Threads, NEW l \in Labels, NEW m \in Labels
      PROVE  RequestOK(Move(t, l, m)) /\ Move(t, l, m).kind = "move"
             /\ Move(t, l, m).label = m
  BY DEF RequestOK, MoveOK, Move
<1> QED BY <1>1, <1>2, <1>3, <1>4, <1>5

\* Rendering a list shows it, up to flags, and sends an update at most.
LEMMA RenderOK ==
    ASSUME NEW seq \in Seq(Copy), Distinct(seq), NEW a \in Threads \cup {Nothing},
           NEW r, RequestsOK(r), Render(seq, a, r)
    PROVE  /\ active' = a
           /\ list' \in Seq(Copy) /\ Distinct(list') /\ RequestsOK(request')
           /\ \A l : AllOf(seq, l) => AllOf(list', l)
           /\ \A l : AskedFor(r, l) => AskedFor(request', l)
           /\ LoadUnderWay(r) => LoadUnderWay(request')
           /\ \A b \in BOOLEAN : MoreUnderWay(r, b) => MoreUnderWay(request', b)
<1>1. CASE OpenUnread(seq, a)
  <2>1. a \in Threads
    <3>1. \A i \in DOMAIN seq : seq[i] \in Copy OBVIOUS
    <3>2. \A i \in DOMAIN seq : seq[i].id \in Threads BY <3>1 DEF Copy
    <3> QED BY <1>1, <3>2 DEF OpenUnread
  <2>2. /\ active' = a /\ \E s \in Slots : r[s].kind = "idle"
        /\ list' = Patched(seq, a, TRUE) /\ request' = Sent(r, Update(a, TRUE, "effect"))
    BY <1>1 DEF Render
  <2>3. /\ Patched(seq, a, TRUE) \in Seq(Copy) /\ Distinct(Patched(seq, a, TRUE))
        /\ \A l : AllOf(seq, l) => AllOf(Patched(seq, a, TRUE), l)
    BY PatchedOK
  <2>4. PICK f \in Slots : /\ r[f].kind = "idle"
                           /\ Replaced(r, request', f, Update(a, TRUE, "effect"))
    BY <2>2, SentReplaces
  <2>5. /\ RequestOK(Update(a, TRUE, "effect"))
        /\ Update(a, TRUE, "effect").kind = "update"
    BY <2>1, NewRequests
  <2> DEFINE q == Update(a, TRUE, "effect")
  <2> HIDE DEF q
  <2>6. PICK r2 : r2 = request' OBVIOUS
  <2>7. Replaced(r, r2, f, q) /\ RequestOK(q) /\ q.kind = "update" BY <2>4, <2>5, <2>6 DEF q
  <2>8. /\ RequestsOK(r2)
        /\ \A l : AskedFor(r, l) => AskedFor(r2, l)
        /\ LoadUnderWay(r) => LoadUnderWay(r2)
        /\ \A b \in BOOLEAN : MoreUnderWay(r, b) => MoreUnderWay(r2, b)
    BY <2>4, <2>7, FreeReplaced
  <2> QED BY <2>2, <2>3, <2>6, <2>8
<1>2. CASE ~OpenUnread(seq, a)
  <2>1. active' = a /\ list' = seq /\ request' = r BY <1>2 DEF Render
  <2> QED BY <2>1
<1> QED BY <1>1, <1>2

-------------------------------------------------------------------------------
(* The steps. *)

\* A request takes a free slot.
LEMMA SendingStep ==
    ASSUME PageInv, Free # {}, NEW q, RequestOK(q), NEW r2, r2 = Sent(request, q)
    PROVE  /\ RequestsOK(r2)
           /\ \A l : /\ AskedFor(request, l)
                     /\ q.kind \in {"load", "more", "move"} => q.label = l
                     => AskedFor(r2, l)
           /\ LoadUnderWay(request) \/ q.kind = "load" => LoadUnderWay(r2)
           /\ q.kind # "more" => MoreUnderWay(r2, loadingMore)
           /\ q.kind = "more" /\ ~loadingMore => MoreUnderWay(r2, TRUE)
<1>1. /\ RequestsOK(request) /\ MoreUnderWay(request, loadingMore)
      /\ loadingMore \in BOOLEAN
  BY DEF PageInv, TypeOK
<1>2. \E s \in Slots : request[s].kind = "idle" BY DEF Free
<1>3. PICK f \in Slots : request[f].kind = "idle" /\ Replaced(request, r2, f, q)
  BY <1>1, <1>2, SentReplaces
<1>4. request[f].kind # "load" /\ request[f].kind # "more" BY <1>3
<1>5. RequestsOK(r2) BY <1>1, <1>3, ReplacedOK
<1>6. \A l : AskedFor(request, l) /\ (q.kind \in {"load", "more", "move"} => q.label = l)
             => AskedFor(r2, l)
  BY <1>3, ReplacedOK
<1>7. LoadUnderWay(request) \/ q.kind = "load" => LoadUnderWay(r2) BY <1>3, <1>4, ReplacedOK
<1>8. ASSUME q.kind # "more" PROVE MoreUnderWay(r2, loadingMore)
  BY <1>1, <1>3, <1>4, <1>8 DEF MoreUnderWay, Replaced
<1>9. ASSUME q.kind = "more", ~loadingMore PROVE MoreUnderWay(r2, TRUE)
  BY <1>1, <1>3, <1>4, <1>9 DEF MoreUnderWay, Replaced
<1> QED BY <1>5, <1>6, <1>7, <1>8, <1>9

\* A request is forgotten when it is answered or has failed.
LEMMA DoneStep ==
    ASSUME PageInv, NEW s \in Slots, NEW r2, r2 = [request EXCEPT ![s] = Idle]
    PROVE  /\ RequestsOK(r2)
           /\ \A l : AskedFor(request, l) => AskedFor(r2, l)
           /\ LoadUnderWay(request) /\ request[s].kind # "load" => LoadUnderWay(r2)
           /\ request[s].kind # "more" => MoreUnderWay(r2, loadingMore)
           /\ request[s].kind = "more" => MoreUnderWay(r2, FALSE)
<1>1. /\ RequestsOK(request) /\ MoreUnderWay(request, loadingMore)
      /\ loadingMore \in BOOLEAN
  BY DEF PageInv, TypeOK
<1>2. RequestOK(Idle) /\ Idle.kind = "idle" BY NewRequests
<1>3. Replaced(request, r2, s, Idle) BY <1>1, ExceptReplaces DEF RequestsOK
<1> HIDE DEF Idle
<1>4. RequestsOK(r2) BY <1>1, <1>2, <1>3, ReplacedOK
<1>5. \A l : AskedFor(request, l) => AskedFor(r2, l) BY <1>2, <1>3, ReplacedOK
<1>6. LoadUnderWay(request) /\ request[s].kind # "load" => LoadUnderWay(r2) BY <1>3, ReplacedOK
<1>7. ASSUME request[s].kind # "more" PROVE MoreUnderWay(r2, loadingMore)
  BY <1>1, <1>2, <1>3, <1>7 DEF MoreUnderWay, Replaced
<1>8. ASSUME request[s].kind = "more" PROVE MoreUnderWay(r2, FALSE)
  BY <1>1, <1>2, <1>3, <1>8 DEF MoreUnderWay, Replaced
<1> QED BY <1>4, <1>5, <1>6, <1>7, <1>8

\* The types of requests by their kind.
LEMMA KindOfRequest ==
    ASSUME NEW q, RequestOK(q)
    PROVE  /\ q.kind \in {"load", "more"} => LoadOK(q)
           /\ q.kind = "update" => UpdateOK(q)
           /\ q.kind = "move" => MoveOK(q)
           /\ q.kind \in {"idle", "load", "more", "update", "move"}
BY DEF RequestOK, LoadOK, UpdateOK, MoveOK, Idle

LEMMA InitOK == Init => PageInv
<1> SUFFICES ASSUME Init PROVE PageInv OBVIOUS
<1>1. mailbox \in [Threads -> [label: Place, read: BOOLEAN]]
  <2>1. [label: {Inbox, Nothing}, read: {FALSE}] \subseteq [label: Place, read: BOOLEAN]
    BY ClientAssumption DEF Place
  <2> QED BY <2>1 DEF Init
<1>2. TypeOK
  <2>1. list \in Seq(Copy) /\ label \in Labels BY ClientAssumption DEF Init
  <2>2. clicks \in 0 .. MaxClicks /\ events \in 0 .. MaxEvents BY ClientAssumption DEF Init
  <2>3. DOMAIN request = Slots BY DEF Init
  <2>4. {hasMore, loading, loadingMore, connected, crossed} \subseteq BOOLEAN BY DEF Init
  <2>5. cursor \in Threads \cup {Nothing} /\ active \in Threads \cup {Nothing} BY DEF Init
  <2> QED BY <1>1, <2>1, <2>2, <2>3, <2>4, <2>5 DEF TypeOK
<1>3. RequestsOK(request) BY DEF Init, RequestsOK, RequestOK
<1>4. \A s \in Slots : request[s].kind = "idle" BY DEF Init, Idle
<1>5. Distinct(list) /\ AllOf(list, label) BY DEF Init, Distinct, AllOf
<1>6. AskedFor(request, label) BY <1>4 DEF AskedFor
<1>7. loading = FALSE /\ loadingMore = FALSE BY DEF Init
<1>8. MoreUnderWay(request, loadingMore) BY <1>4, <1>7 DEF MoreUnderWay
<1> QED BY <1>2, <1>3, <1>5, <1>6, <1>7, <1>8 DEF PageInv

\* The label is asked for again.
LEMMA ReloadOK ==
    ASSUME PageInv, Reload, clicks' \in 0 .. MaxClicks, events' \in 0 .. MaxEvents
    PROVE  PageInv'
<1>1. PICK q : q = Load(label) OBVIOUS
<1>2. label \in Labels BY DEF PageInv, TypeOK
<1>3. RequestOK(q) /\ q.kind = "load" /\ q.label = label BY <1>1, <1>2, NewRequests
<1>4. PICK r2 : r2 = request' OBVIOUS
<1>5. Free # {} /\ r2 = Sent(request, q) BY <1>1, <1>4 DEF Reload
<1>6. /\ RequestsOK(r2) /\ (AskedFor(request, label) => AskedFor(r2, label))
      /\ LoadUnderWay(r2) /\ MoreUnderWay(r2, loadingMore)
  BY <1>3, <1>5, SendingStep
<1>7. UNCHANGED <<mailbox, label, list, cursor, hasMore, loadingMore, active, connected,
                  crossed>> /\ loading' = TRUE
  BY DEF Reload
<1>8. TypeOK'
  <2>1. DOMAIN request' = Slots BY <1>4, <1>6 DEF RequestsOK
  <2> QED BY <1>7, <2>1 DEF PageInv, TypeOK
<1> QED BY <1>4, <1>6, <1>7, <1>8 DEF PageInv

LEMMA LoadMoreOK == ASSUME PageInv, LoadMore PROVE PageInv'
<1>1. PICK q : q = More(label, cursor) OBVIOUS
<1>2. label \in Labels /\ cursor \in Threads BY DEF PageInv, TypeOK, LoadMore
<1>3. RequestOK(q) /\ q.kind = "more" /\ q.label = label BY <1>1, <1>2, NewRequests
<1>4. PICK r2 : r2 = request' OBVIOUS
<1>5. Free # {} /\ r2 = Sent(request, q) /\ ~loadingMore BY <1>1, <1>4 DEF LoadMore
<1>6. /\ RequestsOK(r2) /\ (AskedFor(request, label) => AskedFor(r2, label))
      /\ (LoadUnderWay(request) => LoadUnderWay(r2)) /\ MoreUnderWay(r2, TRUE)
  BY <1>3, <1>5, SendingStep
<1>7. UNCHANGED <<mailbox, label, list, cursor, hasMore, loading, active, connected,
                  events, crossed>> /\ loadingMore' = TRUE
  BY DEF LoadMore
<1>8. TypeOK'
  <2>1. DOMAIN request' = Slots BY <1>4, <1>6 DEF RequestsOK
  <2>2. clicks' \in 0 .. MaxClicks BY ClientAssumption DEF LoadMore, Click, PageInv, TypeOK
  <2> QED BY <1>7, <2>1, <2>2 DEF PageInv, TypeOK
<1> QED BY <1>4, <1>6, <1>7, <1>8 DEF PageInv

\* A page that arrives is rendered.
LEMMA LoadAnsweredOK == ASSUME PageInv, NEW s \in Slots, LoadAnswered(s) PROVE PageInv'
<1>1. PICK a : a = request[s].page OBVIOUS
<1>2. /\ request[s].kind = "load" /\ request[s].served
      /\ Render(a.threads, active, [request EXCEPT ![s] = Idle])
      /\ cursor' = a.next /\ hasMore' = a.more /\ loading' = FALSE
      /\ UNCHANGED <<mailbox, label, loadingMore, connected, clicks, events, crossed>>
  BY <1>1 DEF LoadAnswered
<1>3. RequestOK(request[s]) BY DEF PageInv, RequestsOK
<1>4. LoadOK(request[s]) BY <1>2, <1>3, KindOfRequest
<1>5. AnswerOK(a, request[s].label) BY <1>1, <1>2, <1>4 DEF LoadOK
<1>6. /\ a.threads \in Seq(Copy) /\ a.next \in Threads \cup {Nothing} /\ a.more \in BOOLEAN
      /\ Distinct(a.threads) /\ AllOf(a.threads, request[s].label)
  BY <1>5 DEF AnswerOK, Answers
<1>7. PICK r : r = [request EXCEPT ![s] = Idle] OBVIOUS
<1>8. /\ RequestsOK(r) /\ \A l : AskedFor(request, l) => AskedFor(r, l)
      /\ MoreUnderWay(r, loadingMore)
  BY <1>2, <1>7, DoneStep
<1>9. active \in Threads \cup {Nothing} /\ loadingMore \in BOOLEAN BY DEF PageInv, TypeOK
<1>10. Render(a.threads, active, r) BY <1>2, <1>7
<1>11. /\ active' = active
       /\ list' \in Seq(Copy) /\ Distinct(list') /\ RequestsOK(request')
       /\ \A l : AllOf(a.threads, l) => AllOf(list', l)
       /\ \A l : AskedFor(r, l) => AskedFor(request', l)
       /\ \A b \in BOOLEAN : MoreUnderWay(r, b) => MoreUnderWay(request', b)
  BY <1>6, <1>8, <1>9, <1>10, RenderOK
<1>12. TypeOK'
  <2>1. DOMAIN request' = Slots BY <1>11 DEF RequestsOK
  <2> QED BY <1>2, <1>6, <1>11, <2>1 DEF PageInv, TypeOK
<1>13. ~crossed' => AllOf(list', label') /\ AskedFor(request', label')
  <2> SUFFICES ASSUME ~crossed PROVE AllOf(list', label) /\ AskedFor(request', label) BY <1>2
  <2>1. AskedFor(request, label) BY DEF PageInv
  <2>2. request[s].label = label BY <1>2, <2>1 DEF AskedFor
  <2> QED BY <1>6, <1>8, <1>11, <2>1, <2>2
<1>14. MoreUnderWay(request', loadingMore') BY <1>2, <1>8, <1>9, <1>11
<1> QED BY <1>2, <1>11, <1>12, <1>13, <1>14 DEF PageInv

LEMMA MoreAnsweredOK == ASSUME PageInv, NEW s \in Slots, MoreAnswered(s) PROVE PageInv'
<1>1. PICK a : a = request[s].page OBVIOUS
<1>2. PICK seq : seq = Appended(list, a.threads) OBVIOUS
<1>3. PICK r : r = [request EXCEPT ![s] = Idle] OBVIOUS
<1>4. /\ request[s].kind = "more" /\ request[s].served
      /\ Render(seq, active, r)
      /\ cursor' = a.next /\ hasMore' = a.more /\ loadingMore' = FALSE
      /\ UNCHANGED <<mailbox, label, loading, connected, clicks, events, crossed>>
  BY <1>1, <1>2, <1>3 DEF MoreAnswered
<1>5. RequestOK(request[s]) BY DEF PageInv, RequestsOK
<1>6. LoadOK(request[s]) BY <1>4, <1>5, KindOfRequest
<1>7. AnswerOK(a, request[s].label) BY <1>1, <1>4, <1>6 DEF LoadOK
<1>8. /\ a.threads \in Seq(Copy) /\ a.next \in Threads \cup {Nothing} /\ a.more \in BOOLEAN
      /\ Distinct(a.threads) /\ AllOf(a.threads, request[s].label)
  BY <1>7 DEF AnswerOK, Answers
<1>9. list \in Seq(Copy) /\ Distinct(list) BY DEF PageInv, TypeOK
<1>10. seq \in Seq(Copy) /\ Distinct(seq) BY <1>2, <1>8, <1>9, AppendedOK
<1>11. AllOf(list, label) /\ AllOf(a.threads, label) => AllOf(seq, label)
  BY <1>2, <1>8, <1>9, AppendedOK
<1>12. /\ RequestsOK(r) /\ \A l : AskedFor(request, l) => AskedFor(r, l)
       /\ LoadUnderWay(request) => LoadUnderWay(r)
       /\ MoreUnderWay(r, FALSE)
  BY <1>3, <1>4, DoneStep
<1>13. active \in Threads \cup {Nothing} BY DEF PageInv, TypeOK
<1>14. /\ active' = active
       /\ list' \in Seq(Copy) /\ Distinct(list') /\ RequestsOK(request')
       /\ \A l : AllOf(seq, l) => AllOf(list', l)
       /\ \A l : AskedFor(r, l) => AskedFor(request', l)
       /\ LoadUnderWay(r) => LoadUnderWay(request')
       /\ \A b \in BOOLEAN : MoreUnderWay(r, b) => MoreUnderWay(request', b)
  BY <1>4, <1>10, <1>12, <1>13, RenderOK
<1>15. TypeOK'
  <2>1. DOMAIN request' = Slots BY <1>14 DEF RequestsOK
  <2> QED BY <1>4, <1>8, <1>14, <2>1 DEF PageInv, TypeOK
<1>16. ~crossed' => AllOf(list', label') /\ AskedFor(request', label')
  <2> SUFFICES ASSUME ~crossed PROVE AllOf(list', label) /\ AskedFor(request', label) BY <1>4
  <2>1. AllOf(list, label) /\ AskedFor(request, label) BY DEF PageInv
  <2>2. request[s].label = label BY <1>4, <2>1 DEF AskedFor
  <2>3. AllOf(seq, label) BY <1>8, <1>11, <2>1, <2>2
  <2> QED BY <1>12, <1>14, <2>1, <2>3
<1>17. MoreUnderWay(request', loadingMore') BY <1>4, <1>12, <1>14
<1>18. loading' => LoadUnderWay(request') BY <1>4, <1>12, <1>14 DEF PageInv
<1> QED BY <1>14, <1>15, <1>16, <1>17, <1>18 DEF PageInv

LEMMA LoadFailsOK == ASSUME PageInv, NEW s \in Slots, LoadFails(s) PROVE PageInv'
<1>1. PICK r2 : r2 = request' OBVIOUS
<1>2. /\ request[s].kind = "load" /\ loading' = FALSE /\ r2 = [request EXCEPT ![s] = Idle]
      /\ UNCHANGED <<mailbox, label, list, cursor, hasMore, loadingMore, active, connected,
                     clicks, crossed>>
  BY <1>1 DEF LoadFails
<1>3. /\ RequestsOK(r2) /\ \A l : AskedFor(request, l) => AskedFor(r2, l)
      /\ MoreUnderWay(r2, loadingMore)
  BY <1>2, DoneStep
<1>4. TypeOK'
  <2>1. DOMAIN request' = Slots BY <1>1, <1>3 DEF RequestsOK
  <2>2. events' \in 0 .. MaxEvents BY ClientAssumption DEF LoadFails, Event, PageInv, TypeOK
  <2> QED BY <1>2, <2>1, <2>2 DEF PageInv, TypeOK
<1> QED BY <1>1, <1>2, <1>3, <1>4 DEF PageInv

LEMMA MoreFailsOK == ASSUME PageInv, NEW s \in Slots, MoreFails(s) PROVE PageInv'
<1>1. PICK r2 : r2 = request' OBVIOUS
<1>2. /\ request[s].kind = "more" /\ loadingMore' = FALSE
      /\ r2 = [request EXCEPT ![s] = Idle]
      /\ UNCHANGED <<mailbox, label, list, cursor, hasMore, loading, active, connected,
                     clicks, crossed>>
  BY <1>1 DEF MoreFails
<1>3. /\ RequestsOK(r2) /\ \A l : AskedFor(request, l) => AskedFor(r2, l)
      /\ (LoadUnderWay(request) => LoadUnderWay(r2)) /\ MoreUnderWay(r2, FALSE)
  BY <1>2, DoneStep
<1>4. TypeOK'
  <2>1. DOMAIN request' = Slots BY <1>1, <1>3 DEF RequestsOK
  <2>2. events' \in 0 .. MaxEvents BY ClientAssumption DEF MoreFails, Event, PageInv, TypeOK
  <2> QED BY <1>2, <2>1, <2>2 DEF PageInv, TypeOK
<1> QED BY <1>1, <1>2, <1>3, <1>4 DEF PageInv

\* Another label clears the list: what is under way for the one before is remembered.
LEMMA ShowLabelOK ==
    ASSUME PageInv, NEW l \in Labels, ShowLabel(l), clicks' \in 0 .. MaxClicks
    PROVE  PageInv'
<1>1. /\ label' = l /\ list' = <<>> /\ cursor' = Nothing /\ hasMore' = FALSE
      /\ active' = Nothing /\ UNCHANGED <<mailbox, loadingMore, events>>
  BY DEF ShowLabel
<1>2. /\ list' \in Seq(Copy) /\ Distinct(list') /\ \A m : AllOf(list', m)
  <2>1. PICK none : none = list' OBVIOUS
  <2>2. none = <<>> BY <1>1, <2>1
  <2>3. none \in Seq(Copy) /\ DOMAIN none = {} BY <2>2
  <2> QED BY <2>1, <2>3 DEF Distinct, AllOf
<1>3. CASE l = label
  <2>1. UNCHANGED <<loading, request, connected, crossed>> BY <1>3 DEF ShowLabel
  <2>2. TypeOK' BY <1>1, <1>2, <2>1 DEF PageInv, TypeOK
  <2> QED BY <1>1, <1>2, <1>3, <2>1, <2>2 DEF PageInv
<1>4. CASE l # label
  <2>1. PICK q : q = Load(l) OBVIOUS
  <2>2. RequestOK(q) /\ q.kind = "load" /\ q.label = l BY <2>1, NewRequests
  <2>3. PICK r2 : r2 = request' OBVIOUS
  <2>4. /\ Free # {} /\ r2 = Sent(request, q) /\ loading' = TRUE /\ connected' = FALSE
        /\ crossed' = (crossed \/ \E s \in Slots : request[s].kind \in {"load", "more", "move"})
    BY <1>4, <2>1, <2>3 DEF ShowLabel
  <2>5. /\ RequestsOK(r2) /\ (AskedFor(request, l) => AskedFor(r2, l))
        /\ LoadUnderWay(r2) /\ MoreUnderWay(r2, loadingMore)
    BY <2>2, <2>4, SendingStep
  <2>6. TypeOK'
    <3>1. DOMAIN request' = Slots BY <2>3, <2>5 DEF RequestsOK
    <3> QED BY <1>1, <1>2, <2>4, <3>1 DEF PageInv, TypeOK
  <2>7. ~crossed' => AskedFor(request, l) BY <2>4 DEF AskedFor
  <2> QED BY <1>1, <1>2, <2>3, <2>4, <2>5, <2>6, <2>7 DEF PageInv
<1> QED BY <1>3, <1>4

LEMMA ClickCounts == PageInv /\ Click => clicks' \in 0 .. MaxClicks
BY ClientAssumption DEF PageInv, TypeOK, Click

LEMMA EventCounts == PageInv /\ Event => events' \in 0 .. MaxEvents
BY ClientAssumption DEF PageInv, TypeOK, Event

LEMMA OpenOK == ASSUME PageInv, NEW t \in Threads \cup {Nothing}, Open(t) PROVE PageInv'
<1>1. /\ Click /\ Render(list, t, request)
      /\ UNCHANGED <<mailbox, label, cursor, hasMore, loading, loadingMore, connected,
                     events, crossed>>
  BY DEF Open
<1>2. clicks' \in 0 .. MaxClicks BY <1>1, ClickCounts
<1>3. /\ list \in Seq(Copy) /\ Distinct(list) /\ RequestsOK(request)
      /\ loadingMore \in BOOLEAN
  BY DEF PageInv, TypeOK
<1>4. /\ active' = t
      /\ list' \in Seq(Copy) /\ Distinct(list') /\ RequestsOK(request')
      /\ \A l : AllOf(list, l) => AllOf(list', l)
      /\ \A l : AskedFor(request, l) => AskedFor(request', l)
      /\ LoadUnderWay(request) => LoadUnderWay(request')
      /\ \A b \in BOOLEAN : MoreUnderWay(request, b) => MoreUnderWay(request', b)
  BY <1>1, <1>3, RenderOK
<1>5. TypeOK'
  <2>1. DOMAIN request' = Slots BY <1>4 DEF RequestsOK
  <2> QED BY <1>1, <1>2, <1>4, <2>1 DEF PageInv, TypeOK
<1> QED BY <1>1, <1>3, <1>4, <1>5 DEF PageInv

LEMMA SelectResultOK == ASSUME PageInv, NEW t \in Threads, SelectResult(t) PROVE PageInv'
<1>1. Click BY DEF SelectResult
<1>2. clicks' \in 0 .. MaxClicks BY <1>1, ClickCounts
<1>3. CASE t \in Ids(list)
  <2>1. PICK i \in DOMAIN list : ShowLabel(list[i].of) BY <1>3 DEF SelectResult
  <2>2. list \in Seq(Copy) BY DEF PageInv, TypeOK
  <2>3. list[i] \in Copy BY <2>2
  <2>4. PICK l : l = list[i].of OBVIOUS
  <2>5. l \in Labels /\ ShowLabel(l) BY <2>1, <2>3, <2>4 DEF Copy
  <2> QED BY <1>2, <2>5, ShowLabelOK
<1>4. CASE t \notin Ids(list)
  <2>1. /\ active' = t
        /\ UNCHANGED <<mailbox, label, list, cursor, hasMore, loading, loadingMore,
                       connected, request, events, crossed>>
    BY <1>4 DEF SelectResult
  <2>2. TypeOK' BY <1>2, <2>1 DEF PageInv, TypeOK
  <2> QED BY <2>1, <2>2 DEF PageInv
<1> QED BY <1>3, <1>4

\* The two requests of the button: the update of the user, then that of the effect.
LEMMA ToggleReadOK == ASSUME PageInv, ToggleRead PROVE PageInv'
<1>1. /\ Click /\ active \in Ids(list)
      /\ UNCHANGED <<mailbox, label, cursor, hasMore, loading, loadingMore, connected,
                     events, crossed>>
  BY DEF ToggleRead
<1>2. clicks' \in 0 .. MaxClicks BY <1>1, ClickCounts
<1>3. /\ list \in Seq(Copy) /\ Distinct(list) /\ RequestsOK(request)
      /\ loadingMore \in BOOLEAN /\ active \in Threads \cup {Nothing}
  BY DEF PageInv, TypeOK
<1>4. active \in Threads
  <2>1. \A i \in DOMAIN list : list[i] \in Copy BY <1>3
  <2>2. \A i \in DOMAIN list : list[i].id \in Threads BY <2>1 DEF Copy
  <2> QED BY <1>1, <2>2 DEF Ids
<1>5. Free # {}
  <2>1. Cardinality(Free) > 1 BY DEF ToggleRead
  <2>2. ~(Cardinality({}) > 1) BY FS_EmptySet
  <2> QED BY <2>1, <2>2
<1>6. PICK b \in BOOLEAN : Render(Patched(list, active, b), active,
                                  Sent(request, Update(active, b, "user")))
  BY DEF ToggleRead
<1>7. PICK q : q = Update(active, b, "user") OBVIOUS
<1>8. RequestOK(q) /\ q.kind = "update" BY <1>4, <1>7, NewRequests
<1>9. PICK r : r = Sent(request, q) OBVIOUS
<1>10. /\ RequestsOK(r) /\ \A l : AskedFor(request, l) => AskedFor(r, l)
       /\ LoadUnderWay(request) => LoadUnderWay(r)
       /\ MoreUnderWay(r, loadingMore)
  <2>1. q.kind \notin {"load", "more", "move"} /\ q.kind # "more" BY <1>8
  <2> QED BY <1>5, <1>8, <1>9, <2>1, SendingStep
<1>11. PICK seq : seq = Patched(list, active, b) OBVIOUS
<1>12. /\ seq \in Seq(Copy) /\ Distinct(seq)
       /\ \A l : AllOf(list, l) => AllOf(seq, l)
  BY <1>3, <1>11, PatchedOK
<1>13. Render(seq, active, r) BY <1>6, <1>7, <1>9, <1>11
<1>14. /\ active' = active
       /\ list' \in Seq(Copy) /\ Distinct(list') /\ RequestsOK(request')
       /\ \A l : AllOf(seq, l) => AllOf(list', l)
       /\ \A l : AskedFor(r, l) => AskedFor(request', l)
       /\ LoadUnderWay(r) => LoadUnderWay(request')
       /\ \A c \in BOOLEAN : MoreUnderWay(r, c) => MoreUnderWay(request', c)
  BY <1>3, <1>10, <1>12, <1>13, RenderOK
<1>15. TypeOK'
  <2>1. DOMAIN request' = Slots BY <1>14 DEF RequestsOK
  <2> QED BY <1>1, <1>2, <1>3, <1>14, <2>1 DEF PageInv, TypeOK
<1> QED BY <1>1, <1>3, <1>10, <1>12, <1>14, <1>15 DEF PageInv

LEMMA MoveOpenOK == ASSUME PageInv, NEW l \in Labels, MoveOpen(l) PROVE PageInv'
<1>1. /\ Click /\ active \in Ids(list) /\ Free # {}
      /\ list' = Removed(list, active) /\ active' = Nothing
      /\ request' = Sent(request, Move(active, l, label))
      /\ UNCHANGED <<mailbox, label, cursor, hasMore, loading, loadingMore, connected,
                     events, crossed>>
  BY DEF MoveOpen
<1>2. clicks' \in 0 .. MaxClicks BY <1>1, ClickCounts
<1>3. /\ list \in Seq(Copy) /\ Distinct(list) /\ label \in Labels BY DEF PageInv, TypeOK
<1>4. active \in Threads
  <2>1. \A i \in DOMAIN list : list[i] \in Copy BY <1>3
  <2>2. \A i \in DOMAIN list : list[i].id \in Threads BY <2>1 DEF Copy
  <2> QED BY <1>1, <2>2 DEF Ids
<1>5. PICK q : q = Move(active, l, label) OBVIOUS
<1>6. RequestOK(q) /\ q.kind = "move" /\ q.label = label BY <1>3, <1>4, <1>5, NewRequests
<1>7. PICK r2 : r2 = request' OBVIOUS
<1>8. r2 = Sent(request, q) BY <1>1, <1>5, <1>7
<1>9. /\ RequestsOK(r2) /\ (AskedFor(request, label) => AskedFor(r2, label))
      /\ LoadUnderWay(request) => LoadUnderWay(r2)
      /\ MoreUnderWay(r2, loadingMore)
  BY <1>1, <1>6, <1>8, SendingStep
<1>10. /\ list' \in Seq(Copy) /\ Distinct(list')
       /\ AllOf(list, label) => AllOf(list', label)
  <2>1. PICK seq : seq = Removed(list, active) OBVIOUS
  <2>2. seq \in Seq(Copy) /\ Distinct(seq) /\ (AllOf(list, label) => AllOf(seq, label))
    BY <1>3, <2>1, RemovedOK
  <2> QED BY <1>1, <2>1, <2>2
<1>11. TypeOK'
  <2>1. DOMAIN request' = Slots BY <1>7, <1>9 DEF RequestsOK
  <2> QED BY <1>1, <1>2, <1>10, <2>1 DEF PageInv, TypeOK
<1> QED BY <1>1, <1>7, <1>9, <1>10, <1>11 DEF PageInv

LEMMA AnsweredOK == ASSUME PageInv, NEW s \in Slots, Answered(s) PROVE PageInv'
<1>1. PICK r2 : r2 = request' OBVIOUS
<1>2. /\ request[s].kind \in {"update", "move"} /\ r2 = [request EXCEPT ![s] = Idle]
      /\ UNCHANGED <<mailbox, label, list, cursor, hasMore, loading, loadingMore, active,
                     connected, clicks, events, crossed>>
  BY <1>1 DEF Answered
<1>3. request[s].kind # "load" /\ request[s].kind # "more" BY <1>2
<1>4. /\ RequestsOK(r2) /\ \A l : AskedFor(request, l) => AskedFor(r2, l)
      /\ (LoadUnderWay(request) => LoadUnderWay(r2)) /\ MoreUnderWay(r2, loadingMore)
  BY <1>2, <1>3, DoneStep
<1>5. TypeOK'
  <2>1. DOMAIN request' = Slots BY <1>1, <1>4 DEF RequestsOK
  <2> QED BY <1>2, <2>1 DEF PageInv, TypeOK
<1> QED BY <1>1, <1>2, <1>4, <1>5 DEF PageInv

LEMMA UpdateFailsOK == ASSUME PageInv, NEW s \in Slots, UpdateFails(s) PROVE PageInv'
<1>1. /\ Event /\ request[s].kind = "update"
      /\ UNCHANGED <<mailbox, label, cursor, hasMore, loading, loadingMore, connected,
                     clicks, crossed>>
  BY DEF UpdateFails
<1>2. events' \in 0 .. MaxEvents BY <1>1, EventCounts
<1>3. /\ list \in Seq(Copy) /\ Distinct(list) /\ RequestOK(request[s])
      /\ loadingMore \in BOOLEAN /\ active \in Threads \cup {Nothing}
  BY DEF PageInv, TypeOK, RequestsOK
<1>4. request[s].thread \in Threads /\ request[s].read \in BOOLEAN
  <2>1. UpdateOK(request[s]) BY <1>1, <1>3, KindOfRequest
  <2> QED BY <2>1 DEF UpdateOK
<1>5. PICK r : r = [request EXCEPT ![s] = Idle] OBVIOUS
<1>6. request[s].kind # "load" /\ request[s].kind # "more" BY <1>1
<1>7. /\ RequestsOK(r) /\ \A l : AskedFor(request, l) => AskedFor(r, l)
      /\ (LoadUnderWay(request) => LoadUnderWay(r)) /\ MoreUnderWay(r, loadingMore)
  BY <1>5, <1>6, DoneStep
<1>8. CASE request[s].by = "user"
  <2>1. PICK t, b : t = request[s].thread /\ b = ~request[s].read OBVIOUS
  <2>2. PICK seq : seq = Patched(list, t, b) OBVIOUS
  <2>3. b \in BOOLEAN BY <1>4, <2>1
  <2>4. Render(seq, active, r) BY <1>5, <1>8, <2>1, <2>2 DEF UpdateFails
  <2>5. /\ seq \in Seq(Copy) /\ Distinct(seq)
        /\ \A l : AllOf(list, l) => AllOf(seq, l)
    BY <1>3, <2>2, <2>3, PatchedOK
  <2>6. /\ active' = active
        /\ list' \in Seq(Copy) /\ Distinct(list') /\ RequestsOK(request')
        /\ \A l : AllOf(seq, l) => AllOf(list', l)
        /\ \A l : AskedFor(r, l) => AskedFor(request', l)
        /\ LoadUnderWay(r) => LoadUnderWay(request')
        /\ \A c \in BOOLEAN : MoreUnderWay(r, c) => MoreUnderWay(request', c)
    BY <1>3, <1>7, <2>4, <2>5, RenderOK
  <2>7. TypeOK'
    <3>1. DOMAIN request' = Slots BY <2>6 DEF RequestsOK
    <3> QED BY <1>1, <1>2, <1>3, <2>6, <3>1 DEF PageInv, TypeOK
  <2> QED BY <1>1, <1>3, <1>7, <2>5, <2>6, <2>7 DEF PageInv
<1>9. CASE request[s].by # "user"
  <2>1. request' = r /\ UNCHANGED <<list, active>> BY <1>5, <1>9 DEF UpdateFails
  <2>2. TypeOK'
    <3>1. DOMAIN request' = Slots BY <1>7, <2>1 DEF RequestsOK
    <3> QED BY <1>1, <1>2, <2>1, <3>1 DEF PageInv, TypeOK
  <2> QED BY <1>1, <1>7, <2>1, <2>2 DEF PageInv
<1> QED BY <1>8, <1>9

\* A failed move asks for the label it was made in.
LEMMA MoveFailsOK == ASSUME PageInv, NEW s \in Slots, MoveFails(s) PROVE PageInv'
<1>1. PICK q : q = Load(request[s].label) OBVIOUS
<1>2. PICK r2 : r2 = request' OBVIOUS
<1>3. /\ Event /\ request[s].kind = "move" /\ loading' = TRUE
      /\ r2 = [request EXCEPT ![s] = q]
      /\ UNCHANGED <<mailbox, label, list, cursor, hasMore, loadingMore, active, connected,
                     clicks, crossed>>
  BY <1>1, <1>2 DEF MoveFails
<1>4. events' \in 0 .. MaxEvents BY <1>3, EventCounts
<1>5. /\ RequestsOK(request) /\ RequestOK(request[s]) /\ loadingMore \in BOOLEAN
      /\ MoreUnderWay(request, loadingMore)
  BY DEF PageInv, TypeOK, RequestsOK
<1>6. request[s].label \in Labels
  <2>1. MoveOK(request[s]) BY <1>3, <1>5, KindOfRequest
  <2> QED BY <2>1 DEF MoveOK
<1>7. RequestOK(q) /\ q.kind = "load" /\ q.label = request[s].label BY <1>1, <1>6, NewRequests
<1>8. Replaced(request, r2, s, q) BY <1>3, <1>5, ExceptReplaces DEF RequestsOK
<1>9. RequestsOK(r2) /\ LoadUnderWay(r2) BY <1>5, <1>7, <1>8, ReplacedOK
<1>10. AskedFor(request, label) => AskedFor(r2, label)
  <2> SUFFICES ASSUME AskedFor(request, label) PROVE AskedFor(r2, label) OBVIOUS
  <2>1. q.label = label BY <1>3, <1>7 DEF AskedFor
  <2> QED BY <1>8, <2>1 DEF AskedFor, Replaced
<1>11. MoreUnderWay(r2, loadingMore)
  <2>1. request[s].kind # "more" /\ q.kind # "more" BY <1>3, <1>7
  <2> QED BY <1>5, <1>8, <2>1 DEF MoreUnderWay, Replaced
<1>12. TypeOK'
  <2>1. DOMAIN request' = Slots BY <1>2, <1>9 DEF RequestsOK
  <2> QED BY <1>3, <1>4, <2>1 DEF PageInv, TypeOK
<1> QED BY <1>2, <1>3, <1>9, <1>10, <1>11, <1>12 DEF PageInv

\* What the server takes or answers does not change what the page has.
LEMMA ServeOK == ASSUME PageInv, NEW s \in Slots, Serve(s) PROVE PageInv'
<1>1. PICK q : q = request[s] OBVIOUS
<1>2. /\ RequestsOK(request) /\ RequestOK(q) /\ loadingMore \in BOOLEAN
      /\ MoreUnderWay(request, loadingMore)
      /\ mailbox \in [Threads -> [label: Place, read: BOOLEAN]]
  BY <1>1 DEF PageInv, TypeOK, RequestsOK
<1>3. /\ q.kind # "idle" /\ ~q.served
      /\ UNCHANGED <<label, list, cursor, hasMore, loading, loadingMore, active, connected,
                     clicks, events, crossed>>
  BY <1>1 DEF Serve
<1>4. \E u : /\ request' = [request EXCEPT ![s] = u]
             /\ RequestOK(u) /\ u.kind = q.kind
             /\ u.kind \in {"load", "more", "move"} => u.label = q.label
             /\ mailbox' \in [Threads -> [label: Place, read: BOOLEAN]]
  <2>1. CASE q.kind = "update"
    <3>1. UpdateOK(q) BY <1>2, <2>1, KindOfRequest
    <3>2. /\ mailbox' = [mailbox EXCEPT ![q.thread].read = q.read]
          /\ request' = [request EXCEPT ![s].served = TRUE]
      BY <1>1, <2>1 DEF Serve
    <3> DEFINE u == [q EXCEPT !.served = TRUE]
    <3>3. request' = [request EXCEPT ![s] = u] BY <1>1, <3>2
    <3>4. UpdateOK(u) /\ u.kind = "update" BY <3>1 DEF UpdateOK
    <3>5. mailbox' \in [Threads -> [label: Place, read: BOOLEAN]]
      <4>1. q.thread \in Threads /\ q.read \in BOOLEAN BY <3>1 DEF UpdateOK
      <4> QED BY <1>2, <3>2, <4>1
    <3> HIDE DEF u
    <3> QED BY <2>1, <3>3, <3>4, <3>5 DEF RequestOK
  <2>2. CASE q.kind = "move"
    <3>1. MoveOK(q) BY <1>2, <2>2, KindOfRequest
    <3>2. /\ mailbox' = [mailbox EXCEPT ![q.thread].label = q.to]
          /\ request' = [request EXCEPT ![s].served = TRUE]
      BY <1>1, <2>2 DEF Serve
    <3> DEFINE u == [q EXCEPT !.served = TRUE]
    <3>3. request' = [request EXCEPT ![s] = u] BY <1>1, <3>2
    <3>4. MoveOK(u) /\ u.kind = "move" /\ u.label = q.label BY <3>1 DEF MoveOK
    <3>5. mailbox' \in [Threads -> [label: Place, read: BOOLEAN]]
      <4>1. q.thread \in Threads /\ q.to \in Place BY <3>1 DEF MoveOK, Place
      <4> QED BY <1>2, <3>2, <4>1
    <3> HIDE DEF u
    <3> QED BY <2>2, <3>3, <3>4, <3>5 DEF RequestOK
  <2>3. CASE q.kind \in {"load", "more"}
    <3>1. LoadOK(q) BY <1>2, <2>3, KindOfRequest
    <3>2. PICK p : p = Page(q.label, q.cursor) OBVIOUS
    <3>3. /\ request' = [request EXCEPT ![s].served = TRUE, ![s].page = p]
          /\ mailbox' = mailbox
      BY <1>1, <2>3, <3>2 DEF Serve
    <3>4. AnswerOK(p, q.label)
      <4>1. q.label \in Labels /\ q.cursor \in Threads \cup {Nothing} BY <3>1 DEF LoadOK
      <4>2. TypeOK BY DEF PageInv
      <4> QED BY <3>2, <4>1, <4>2, PageIsAnswer
    <3> DEFINE u == [q EXCEPT !.served = TRUE, !.page = p]
    <3>5. request' = [request EXCEPT ![s] = u] BY <1>1, <1>2, <3>3 DEF RequestsOK
    <3>6. u.kind = q.kind /\ u.label = q.label /\ u.page = p BY <3>1 DEF LoadOK
    <3>7. u \in [kind: {"load", "more"}, served: BOOLEAN, label: Labels,
                 cursor: Threads \cup {Nothing}, page: Answers \cup {Nothing}]
      <4>1. p \in Answers BY <3>4 DEF AnswerOK
      <4> QED BY <3>1, <4>1 DEF LoadOK
    <3> HIDE DEF u
    <3>8. LoadOK(u) BY <3>4, <3>6, <3>7 DEF LoadOK
    <3> QED BY <1>2, <3>3, <3>5, <3>6, <3>8 DEF RequestOK
  <2> QED BY <1>2, <1>3, <2>1, <2>2, <2>3, KindOfRequest
<1>5. PICK u : /\ request' = [request EXCEPT ![s] = u]
               /\ RequestOK(u) /\ u.kind = q.kind
               /\ u.kind \in {"load", "more", "move"} => u.label = q.label
               /\ mailbox' \in [Threads -> [label: Place, read: BOOLEAN]]
  BY <1>4
<1>6. PICK r2 : r2 = request' OBVIOUS
<1>7. Replaced(request, r2, s, u) BY <1>2, <1>5, <1>6, ExceptReplaces DEF RequestsOK
<1>8. RequestsOK(r2) BY <1>2, <1>5, <1>7, ReplacedOK
<1>9. AskedFor(request, label) => AskedFor(r2, label) BY <1>1, <1>5, <1>7 DEF AskedFor, Replaced
<1>10. LoadUnderWay(request) => LoadUnderWay(r2) BY <1>1, <1>5, <1>7 DEF LoadUnderWay, Replaced
<1>11. MoreUnderWay(r2, loadingMore) BY <1>1, <1>2, <1>5, <1>7 DEF MoreUnderWay, Replaced
<1>12. TypeOK'
  <2>1. DOMAIN request' = Slots BY <1>6, <1>8 DEF RequestsOK
  <2> QED BY <1>3, <1>5, <2>1 DEF PageInv, TypeOK
<1> QED BY <1>3, <1>6, <1>8, <1>9, <1>10, <1>11, <1>12 DEF PageInv

\* Steps that leave the list and the requests alone.
LEMMA AsideOK ==
    ASSUME PageInv,
           UNCHANGED <<label, list, cursor, hasMore, loading, loadingMore, active, request,
                       clicks, crossed>>,
           mailbox' \in [Threads -> [label: Place, read: BOOLEAN]],
           connected' \in BOOLEAN, events' \in 0 .. MaxEvents
    PROVE  PageInv'
<1>1. TypeOK' BY DEF PageInv, TypeOK
<1> QED BY <1>1 DEF PageInv

LEMMA NextOK == PageInv /\ [Next]_vars => PageInv'
<1> SUFFICES ASSUME PageInv, [Next]_vars PROVE PageInv' OBVIOUS
<1>1. /\ mailbox \in [Threads -> [label: Place, read: BOOLEAN]] /\ connected \in BOOLEAN
      /\ clicks \in 0 .. MaxClicks /\ events \in 0 .. MaxEvents
  BY DEF PageInv, TypeOK
<1>2. CASE RefreshClicked
  <2>1. clicks' \in 0 .. MaxClicks /\ events' = events BY <1>2, ClickCounts DEF RefreshClicked
  <2> QED BY <1>1, <1>2, <2>1, ReloadOK DEF RefreshClicked
<1>3. CASE EventArrives
  <2>1. events' \in 0 .. MaxEvents /\ clicks' = clicks BY <1>3, EventCounts DEF EventArrives
  <2> QED BY <1>1, <1>3, <2>1, ReloadOK DEF EventArrives
<1>4. CASE Poll
  <2>1. events' = events /\ clicks' = clicks BY <1>4 DEF Poll
  <2> QED BY <1>1, <1>4, <2>1, ReloadOK DEF Poll
<1>5. CASE LoadMore BY <1>5, LoadMoreOK
<1>6. ASSUME NEW l \in Labels, SetLabel(l) PROVE PageInv'
  <2>1. ShowLabel(l) /\ clicks' \in 0 .. MaxClicks BY <1>6, ClickCounts DEF SetLabel
  <2> QED BY <2>1, ShowLabelOK
<1>7. ASSUME NEW l \in Labels, MoveOpen(l) PROVE PageInv' BY <1>7, MoveOpenOK
<1>8. ASSUME NEW t \in Threads \cup {Nothing}, Open(t) PROVE PageInv' BY <1>8, OpenOK
<1>9. ASSUME NEW t \in Threads, SelectResult(t) PROVE PageInv' BY <1>9, SelectResultOK
<1>10. ASSUME NEW t \in Threads, MailArrives(t) PROVE PageInv'
  <2>1. [label |-> Inbox, read |-> FALSE] \in [label: Place, read: BOOLEAN]
    BY ClientAssumption DEF Place
  <2>2. mailbox' \in [Threads -> [label: Place, read: BOOLEAN]] BY <1>1, <1>10, <2>1 DEF MailArrives
  <2>3. events' \in 0 .. MaxEvents BY <1>10, EventCounts DEF MailArrives
  <2> QED BY <1>1, <1>10, <2>2, <2>3, AsideOK DEF MailArrives
<1>11. CASE ToggleRead BY <1>11, ToggleReadOK
<1>12. CASE StreamOpens
  <2>1. events' \in 0 .. MaxEvents BY <1>12, EventCounts DEF StreamOpens
  <2> QED BY <1>1, <1>12, <2>1, AsideOK DEF StreamOpens
<1>13. CASE StreamFails BY <1>1, <1>13, AsideOK DEF StreamFails
<1>14. ASSUME NEW s \in Slots,
              \/ Serve(s) \/ LoadAnswered(s) \/ MoreAnswered(s) \/ Answered(s)
              \/ LoadFails(s) \/ MoreFails(s) \/ UpdateFails(s) \/ MoveFails(s)
       PROVE  PageInv'
  BY <1>14, ServeOK, LoadAnsweredOK, MoreAnsweredOK, AnsweredOK, LoadFailsOK, MoreFailsOK,
     UpdateFailsOK, MoveFailsOK
<1>15. CASE UNCHANGED vars BY <1>1, <1>15, AsideOK DEF vars
<1> QED BY <1>2, <1>3, <1>4, <1>5, <1>6, <1>7, <1>8, <1>9, <1>10, <1>11, <1>12, <1>13,
           <1>14, <1>15 DEF Next

-------------------------------------------------------------------------------
(* What follows. *)

\* The variables have their types: what the service answers are pages of copies, and
\* no answer, late or not, makes anything else of the list.
THEOREM TypesOK == Spec => []TypeOK
<1>1. PageInv => TypeOK BY DEF PageInv
<1> QED BY <1>1, InitOK, NextOK, PTL DEF Spec

\* A list without repetitions has as many numbers as members.
LEMMA DistinctCounts ==
    ASSUME NEW seq \in Seq(Copy), Distinct(seq)
    PROVE  Cardinality(Ids(seq)) = Len(seq)
<1> DEFINE n == Len(seq)
           f == [i \in 1 .. n |-> seq[i].id]
<1>1. n \in Nat /\ DOMAIN seq = 1 .. n OBVIOUS
<1>2. Ids(seq) = {seq[i].id : i \in 1 .. n} BY <1>1 DEF Ids
<1> HIDE DEF n
<1>3. f \in [1 .. n -> Ids(seq)] /\ \A x \in Ids(seq) : \E i \in 1 .. n : f[i] = x BY <1>2
<1>4. f \in Surjection(1 .. n, Ids(seq)) BY <1>3 DEF Surjection
<1>5. \A i, j \in 1 .. n : f[i] = f[j] => i = j BY <1>1 DEF Distinct
<1>6. f \in Injection(1 .. n, Ids(seq)) BY <1>3, <1>5 DEF Injection, IsInjective
<1>7. ExistsBijection(1 .. n, Ids(seq)) BY <1>4, <1>6 DEF Bijection, ExistsBijection
<1> QED BY <1>1, <1>7, FS_CountingElements DEF n

\* The list of the page holds a thread once, whatever pages and reloads are appended
\* and in which order; it holds threads of its label, and what the page asks for is of
\* it too, unless a label was left with a request under way; the skeletons and the
\* "Loading more" have a request that ends them, and there is one loadMore at most.
THEOREM PageAgreesAlways == Spec => []PageAgrees
<1>1. PageInv => PageAgrees
  <2> SUFFICES ASSUME PageInv PROVE PageAgrees OBVIOUS
  <2>1. NoDuplicates BY DistinctCounts DEF PageInv, TypeOK, NoDuplicates
  <2>2. ListIsOfLabel BY DEF PageInv, ListIsOfLabel, AllOf
  <2>3. SpinnersEnd
    <3> DEFINE S == {s \in Slots : request[s].kind = "more"}
    <3>1. loading => \E s \in Slots : request[s].kind = "load" BY DEF PageInv, LoadUnderWay
    <3>2. MoreUnderWay(request, loadingMore) BY DEF PageInv
    <3>3. ASSUME loadingMore PROVE Cardinality(S) = 1
      <4>1. PICK s \in Slots : request[s].kind = "more" BY <3>2, <3>3 DEF MoreUnderWay
      <4>2. S = {s} BY <3>2, <4>1 DEF MoreUnderWay
      <4> HIDE DEF S
      <4> QED BY <4>2, FS_Singleton
    <3>4. ASSUME ~loadingMore PROVE \A s \in Slots : request[s].kind # "more"
      BY <3>2, <3>4 DEF MoreUnderWay
    <3> QED BY <3>1, <3>3, <3>4 DEF SpinnersEnd
  <2> QED BY <2>1, <2>2, <2>3 DEF PageAgrees
<1> QED BY <1>1, InitOK, NextOK, PTL DEF Spec
===============================================================================
