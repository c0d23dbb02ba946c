------------------------ MODULE PayoutVouchersProofs ------------------------
(***************************************************************************)
(* Proofs about PayoutVouchers, for every value of its constants: its type *)
(* invariant, and, when a wallet's requests are serial and the environment *)
(* stays inside the two grace periods, the inductive invariant from which  *)
(* the safety invariants of the payout path and its refinement of          *)
(* PayoutLedger follow.  Sums of prizes are handled by induction over      *)
(* finite sets, in the form: the sets of which a claim fails, were there   *)
(* any, would have a smallest member.                                      *)
(***************************************************************************)
EXTENDS PayoutVouchers, FiniteSetTheorems, TLAPS

(* The environment under which the payout path is safe. *)
Environmental == SerialRequests /\ TimingMargins

(* What the request, the row, its tickets and the chain know of claim c. *)
RequestInv(c) ==
    /\ pc[c] \in {"idle", "checked"} => row[c].status = "absent" /\ Bound(c) = {}
    /\ pc[c] \in Issuing => /\ row[c].status = "PENDING"
                            /\ now <= row[c].createdAt + RouteBudget
    /\ pc[c] \in {"totalled", "built"} => voucher[c].covers = Bound(c)
    /\ pc[c] \in {"totalled", "built", "issued"} => voucher[c].amount # 0
    /\ pc[c] \in {"built", "issued"} => voucher[c].lvbh # None
    /\ pc[c] # "issued" => /\ row[c].lvbh = None
                           /\ row[c].amount = 0
                           /\ landed[c] = 0
                           /\ row[c].status # "CONFIRMED"
    /\ pc[c] = "issued" => /\ row[c].status # "absent"
                           /\ row[c].amount = voucher[c].amount
                           /\ row[c].lvbh = voucher[c].lvbh

RowInv(c) ==
    /\ row[c].createdAt <= now
    /\ row[c].status = "absent" => Bound(c) = {}
    /\ row[c].status = "CONFIRMED" => landed[c] # 0 /\ row[c].sig = c
    /\ row[c].status # "CONFIRMED" => row[c].sig = NoClaim
    /\ row[c].status = "EXPIRED" => /\ landed[c] = 0
                                    /\ pc[c] \notin Issuing
                                    /\ pc[c] = "issued" => now > voucher[c].lvbh
    /\ pc[c] = "issued" /\ row[c].status # "EXPIRED" => voucher[c].covers = Bound(c)
    /\ landed[c] # 0 => /\ landed[c] <= voucher[c].lvbh
                        /\ landed[c] <= now
                        /\ landed[c] >= row[c].createdAt

TicketInv(t) ==
    /\ ticket[t].claim # NoClaim => ticket[t].win # "WON"
    /\ ticket[t].win = "CLAIMED_ON_BASE" /\ ticket[t].claim # NoClaim
         => row[ticket[t].claim].status = "PENDING"
    /\ ticket[t].win = "PAID_OUT_ON_SOLANA"
         => ticket[t].claim # NoClaim /\ row[ticket[t].claim].status = "CONFIRMED"

(* A wallet has at most one request in flight or live voucher. *)
Busy(c) == pc[c] \in InFlight \/ (row[c].status = "PENDING" /\ row[c].lvbh # None)
SerialInv ==
    \A c, d \in Claims : c # d /\ Requester[c] = Requester[d] => ~(Busy(c) /\ Busy(d))

(* What a row read at the start of the tick still says of the claim. *)
SnapInv(s) ==
    /\ pc[s.id] \notin {"idle", "checked"}
    /\ row[s.id].status \in {"PENDING", "absent"}
    /\ row[s.id].status = "PENDING" => s.createdAt = row[s.id].createdAt
    /\ s.lvbh # None => /\ pc[s.id] = "issued"
                        /\ s.lvbh = voucher[s.id].lvbh
                        /\ s.amount = voucher[s.id].amount
    /\ s.lvbh = None => /\ s.amount = 0
                        /\ pc[s.id] \in Issuing \cup {"issued"}
                             => conf.start <= row[s.id].createdAt + RouteBudget

TickInv ==
    /\ conf.pc # "idle" => conf.start <= now /\ now <= conf.start + TickBudget
    /\ \A s, r \in conf.snap : s.id = r.id => s = r
    /\ conf.seen \subseteq Landed
    /\ conf.pc \in {"swept", "resolving"} =>
         /\ conf.sweptAt <= now
         /\ conf.complete =>
              \A x \in Landed : landed[x] + RpcLag < conf.sweptAt => x \in conf.seen
    /\ conf.pc = "swept" => now <= conf.sweptAt + SweepBudget
    /\ conf.pc = "resolving" =>
         /\ conf.height <= conf.sweptAt + SweepBudget
         /\ \A c \in Claims : row[c].status = "CONFIRMED" => c \in conf.used
         /\ \A s \in conf.snap : s.id \notin conf.used

IInv ==
    /\ now >= 1
    /\ \A c \in Claims : RequestInv(c) /\ RowInv(c)
    /\ \A t \in Tickets : TicketInv(t)
    /\ SerialInv
    /\ \A s \in conf.snap : SnapInv(s)
    /\ TickInv

-----------------------------------------------------------------------------
(* The element of s that the library's fold takes first.                   *)
First(s) == CHOOSE x \in s : TRUE
(* f maps every subset of S to the sum of w over it, computed the way the  *)
(* library's fold does.                                                    *)
SumsOver(f, S, w) ==
    f = [s \in SUBSET S |-> IF s = {} THEN 0 ELSE w[First(s)] + f[s \ {First(s)}]]

(* A nonempty family of subsets of a finite set has a smallest member.     *)
(* Applied to the subsets of which a claim fails, this is induction over   *)
(* finite sets.                                                            *)
LEMMA SmallestSet ==
    ASSUME NEW S, IsFiniteSet(S), NEW T, T \subseteq SUBSET S, T # {}
    PROVE  \E x \in T : \A y \in T : y \subseteq x => y = x
<1>1. IsWellFoundedOn(StrictSubsetOrdering(S), SUBSET S)
  BY FS_StrictSubsetOrderingWellFounded, FS_FiniteSubsetsOfFinite
<1>2. PICK x \in T : \A y \in T : <<y, x>> \notin StrictSubsetOrdering(S)
  BY <1>1, WFMin
<1>3. \A y \in T : <<y, x>> \in (SUBSET S) \X (SUBSET S)
  OBVIOUS
<1>4. ASSUME NEW y \in T, y \subseteq x, y # x
      PROVE  FALSE
  BY <1>2, <1>3, <1>4 DEF StrictSubsetOrdering
<1> QED
  BY <1>4

(* The element the sum takes first is one of the set.                      *)
LEMMA FirstIn == ASSUME NEW s, s # {} PROVE First(s) \in s
  BY DEF First

(* Two such functions agree wherever both are defined.                     *)
LEMMA SumsAgree ==
    ASSUME NEW S, IsFiniteSet(S), NEW T, T \subseteq S,
           NEW w, NEW f, NEW g, SumsOver(f, S, w), SumsOver(g, T, w)
    PROVE  \A s \in SUBSET T : f[s] = g[s]
<1> DEFINE D == {s \in SUBSET T : f[s] # g[s]}
<1> SUFFICES ASSUME D # {}
             PROVE  FALSE
  OBVIOUS
<1>1. PICK s \in D : \A y \in D : y \subseteq s => y = s
  <2>1. D \subseteq SUBSET S
    OBVIOUS
  <2> HIDE DEF D
  <2> QED
    BY <2>1, SmallestSet
<1>2. s \in SUBSET T /\ s \in SUBSET S /\ f[s] # g[s]
  OBVIOUS
<1>3. s # {}
  BY <1>2 DEF SumsOver
<1>4. First(s) \in s
  BY <1>3, FirstIn
<1>5. s \ {First(s)} \in SUBSET T /\ s \ {First(s)} \subseteq s /\ s \ {First(s)} # s
  BY <1>2, <1>4
<1>6. f[s \ {First(s)}] = g[s \ {First(s)}]
  BY <1>1, <1>5
<1>7. f[s] = w[First(s)] + f[s \ {First(s)}]
  BY <1>2, <1>3 DEF SumsOver
<1>8. g[s] = w[First(s)] + g[s \ {First(s)}]
  BY <1>2, <1>3 DEF SumsOver
<1> QED
  BY <1>2, <1>6, <1>7, <1>8

(* Over a finite set the recursion has a solution: the sum of the code's   *)
(* loop is well defined.                                                   *)
LEMMA SumsExist ==
    ASSUME NEW S, IsFiniteSet(S), NEW w
    PROVE  \E f : SumsOver(f, S, w)
<1> DEFINE D == {s \in SUBSET S : ~ \E f : SumsOver(f, s, w)}
<1> SUFFICES ASSUME S \in D
             PROVE  FALSE
  OBVIOUS
<1>1. PICK s \in D : \A y \in D : y \subseteq s => y = s
  <2>1. D \subseteq SUBSET S /\ D # {}
    OBVIOUS
  <2> HIDE DEF D
  <2> QED
    BY <2>1, SmallestSet
<1>2. s \in SUBSET S /\ ~ \E f : SumsOver(f, s, w)
  OBVIOUS
<1> DEFINE F(u) == CHOOSE f : SumsOver(f, u, w)
           h == [u \in SUBSET s |-> IF u = {} THEN 0
                                    ELSE w[First(u)] + F(u \ {First(u)})[u \ {First(u)}]]
<1>3. ASSUME NEW u \in SUBSET s, u # s
      PROVE  SumsOver(F(u), u, w)
  <2>1. u \notin D /\ u \in SUBSET S
    BY <1>1, <1>2, <1>3
  <2>2. \E f : SumsOver(f, u, w)
    BY <2>1
  <2> HIDE DEF D
  <2> QED
    BY <2>2
<1> HIDE DEF D, F
<1>4. ASSUME NEW u \in SUBSET s, u # s
      PROVE  h[u] = F(u)[u]
  <2>1. SumsOver(F(u), u, w)
    BY <1>3, <1>4
  <2>2. CASE u = {}
    BY <2>1, <2>2 DEF SumsOver
  <2>3. CASE u # {}
    <3> DEFINE v == u \ {First(u)}
    <3>1. First(u) \in u
      BY <2>3, FirstIn
    <3>2. v \in SUBSET s /\ v # s /\ v \subseteq u
      BY <3>1
    <3>3. SumsOver(F(v), v, w)
      BY <1>3, <3>2
    <3>4. IsFiniteSet(u)
      BY <1>2, FS_Subset
    <3> HIDE DEF v
    <3>5. F(u)[v] = F(v)[v]
      BY <2>1, <3>2, <3>3, <3>4, SumsAgree
    <3> USE DEF v
    <3>6. F(u)[u] = w[First(u)] + F(u)[v]
      BY <2>1, <2>3 DEF SumsOver
    <3>7. h[u] = w[First(u)] + F(v)[v]
      BY <2>3
    <3> QED
      BY <3>5, <3>6, <3>7
  <2> QED
    BY <2>2, <2>3
<1>5. ASSUME NEW u \in SUBSET s, u # {}
      PROVE  h[u] = w[First(u)] + h[u \ {First(u)}]
  <2> DEFINE v == u \ {First(u)}
  <2>1. First(u) \in u
    BY <1>5, FirstIn
  <2>2. v \in SUBSET s /\ v # s
    BY <2>1
  <2>3. h[v] = F(v)[v]
    BY <1>4, <2>2
  <2> QED
    BY <1>5, <2>3
<1>6. h = [u \in SUBSET s |-> IF u = {} THEN 0 ELSE w[First(u)] + h[u \ {First(u)}]]
  BY <1>5
<1>7. SumsOver(h, s, w)
  BY <1>6 DEF SumsOver
<1> QED
  BY <1>2, <1>7

(* The sum of w over the set S.                                            *)
SumOf(w, S) == MapThenSumSet(LAMBDA x : w[x], S)

(* The library's fold computes that solution.                              *)
LEMMA SumIsFold ==
    ASSUME NEW S, IsFiniteSet(S), NEW w
    PROVE  \E f : SumsOver(f, S, w) /\ SumOf(w, S) = f[S]
<1> DEFINE f == CHOOSE g : SumsOver(g, S, w)
<1>1. SumsOver(f, S, w)
  <2>1. \E g : SumsOver(g, S, w)
    BY SumsExist
  <2> QED
    BY <2>1
<1>2. SumOf(w, S) = f[S]
  BY DEF SumOf, MapThenSumSet, MapThenFoldSet, SumsOver, First
<1> QED
  BY <1>1, <1>2

(* No ticket, no money.                                                    *)
LEMMA SumOfNone ==
    ASSUME NEW w
    PROVE  SumOf(w, {}) = 0
<1>1. IsFiniteSet({})
  BY FS_EmptySet
<1>2. PICK f : SumsOver(f, {}, w) /\ SumOf(w, {}) = f[{}]
  BY <1>1, SumIsFold
<1> QED
  BY <1>2 DEF SumsOver

(* The sum unfolds at the element it takes first.                          *)
LEMMA SumFirst ==
    ASSUME NEW S, IsFiniteSet(S), S # {}, NEW w
    PROVE  SumOf(w, S) = w[First(S)] + SumOf(w, S \ {First(S)})
<1> DEFINE T == S \ {First(S)}
<1>1. PICK f : SumsOver(f, S, w) /\ SumOf(w, S) = f[S]
  BY SumIsFold
<1>2. IsFiniteSet(T) /\ T \subseteq S
  BY FS_Subset
<1>3. PICK g : SumsOver(g, T, w) /\ SumOf(w, T) = g[T]
  BY <1>2, SumIsFold
<1>4. f[T] = g[T]
  <2> HIDE DEF T
  <2> QED
    BY <1>1, <1>2, <1>3, SumsAgree
<1>5. f[S] = w[First(S)] + f[T]
  BY <1>1 DEF SumsOver
<1> QED
  BY <1>1, <1>3, <1>4, <1>5

(* A sum of amounts is an amount.                                          *)
LEMMA SumNat ==
    ASSUME NEW S, IsFiniteSet(S), NEW w, \A x \in S : w[x] \in Nat
    PROVE  SumOf(w, S) \in Nat
<1> DEFINE D == {s \in SUBSET S : SumOf(w, s) \notin Nat}
<1> SUFFICES ASSUME D # {}
             PROVE  FALSE
  OBVIOUS
<1>1. PICK s \in D : \A y \in D : y \subseteq s => y = s
  <2>1. D \subseteq SUBSET S
    OBVIOUS
  <2> HIDE DEF D
  <2> QED
    BY <2>1, SmallestSet
<1>2. s \in SUBSET S /\ SumOf(w, s) \notin Nat
  OBVIOUS
<1>3. s # {}
  BY <1>2, SumOfNone
<1>4. First(s) \in s
  BY <1>3, FirstIn
<1>5. SumOf(w, s \ {First(s)}) \in Nat
  BY <1>1, <1>2, <1>4
<1>6. SumOf(w, s) = w[First(s)] + SumOf(w, s \ {First(s)})
  BY <1>2, <1>3, SumFirst, FS_Subset
<1> QED
  BY <1>2, <1>4, <1>5, <1>6

(* The sum unfolds at any element: the order of the loop is immaterial.    *)
LEMMA SumRemove ==
    ASSUME NEW S, IsFiniteSet(S), NEW w, \A x \in S : w[x] \in Nat, NEW x \in S
    PROVE  SumOf(w, S) = w[x] + SumOf(w, S \ {x})
<1> DEFINE D == {s \in SUBSET S : \E z \in s : SumOf(w, s) # w[z] + SumOf(w, s \ {z})}
<1> SUFFICES ASSUME D # {}
             PROVE  FALSE
  OBVIOUS
<1>1. PICK s \in D : \A y \in D : y \subseteq s => y = s
  <2>1. D \subseteq SUBSET S
    OBVIOUS
  <2> HIDE DEF D
  <2> QED
    BY <2>1, SmallestSet
<1>2. PICK z \in s : SumOf(w, s) # w[z] + SumOf(w, s \ {z})
  OBVIOUS
<1>3. s \in SUBSET S
  OBVIOUS
<1> DEFINE y == First(s)
<1>4. y \in s
  BY <1>2, FirstIn
<1>5. SumOf(w, s) = w[y] + SumOf(w, s \ {y})
  BY <1>2, <1>3, SumFirst, FS_Subset
<1>6. y # z
  BY <1>2, <1>5
<1>7. s \ {y} \notin D /\ s \ {z} \notin D
  <2> HIDE DEF D, y
  <2> QED
    BY <1>1, <1>2, <1>4
<1>8. SumOf(w, s \ {y}) = w[z] + SumOf(w, (s \ {y}) \ {z})
  BY <1>2, <1>3, <1>6, <1>7
<1>9. SumOf(w, s \ {z}) = w[y] + SumOf(w, (s \ {z}) \ {y})
  BY <1>3, <1>4, <1>6, <1>7
<1> DEFINE r == (s \ {y}) \ {z}
<1>10. r = (s \ {z}) \ {y} /\ r \in SUBSET S
  BY <1>3
<1>11. SumOf(w, r) \in Nat
  <2> HIDE DEF r
  <2> QED
    BY <1>10, FS_Subset, SumNat
<1>12. w[y] \in Nat /\ w[z] \in Nat
  BY <1>2, <1>3, <1>4
<1>13. SumOf(w, s \ {y}) = w[z] + SumOf(w, r)
  BY <1>8
<1>14. SumOf(w, s \ {z}) = w[y] + SumOf(w, r)
  BY <1>9, <1>10
<1> HIDE DEF r, y, D
<1>15. SumOf(w, s) = w[z] + SumOf(w, s \ {z})
  BY <1>5, <1>11, <1>12, <1>13, <1>14
<1> QED
  BY <1>2, <1>15

(* Disjoint sets of tickets are worth what they are worth apart.           *)
LEMMA SumUnion ==
    ASSUME NEW A, IsFiniteSet(A), NEW B, IsFiniteSet(B), A \cap B = {},
           NEW w, \A x \in A \cup B : w[x] \in Nat
    PROVE  SumOf(w, A \cup B) = SumOf(w, A) + SumOf(w, B)
<1> DEFINE D == {s \in SUBSET B : SumOf(w, A \cup s) # SumOf(w, A) + SumOf(w, s)}
<1> SUFFICES ASSUME D # {}
             PROVE  FALSE
  OBVIOUS
<1>1. PICK s \in D : \A y \in D : y \subseteq s => y = s
  <2>1. D \subseteq SUBSET B
    OBVIOUS
  <2> HIDE DEF D
  <2> QED
    BY <2>1, SmallestSet
<1>2. s \in SUBSET B /\ SumOf(w, A \cup s) # SumOf(w, A) + SumOf(w, s)
  OBVIOUS
<1>3. IsFiniteSet(s) /\ IsFiniteSet(A \cup s)
  BY <1>2, FS_Subset, FS_Union
<1>4. SumOf(w, A) \in Nat /\ SumOf(w, s) \in Nat
  BY <1>2, <1>3, SumNat
<1>5. s # {}
  <2> SUFFICES ASSUME s = {}
               PROVE  FALSE
    OBVIOUS
  <2>1. A \cup s = A /\ SumOf(w, s) = 0
    BY SumOfNone
  <2> QED
    BY <1>2, <1>4, <2>1
<1>6. PICK x \in s : TRUE
  BY <1>5
<1> DEFINE r == s \ {x}
<1>7. SumOf(w, A \cup r) = SumOf(w, A) + SumOf(w, r)
  BY <1>1, <1>2, <1>6
<1>8. x \in A \cup s /\ (A \cup s) \ {x} = A \cup r
  BY <1>2, <1>6
<1>9. SumOf(w, A \cup s) = w[x] + SumOf(w, A \cup r)
  <2>1. \A z \in A \cup s : w[z] \in Nat
    BY <1>2
  <2> HIDE DEF D, r
  <2> QED
    BY <1>3, <1>8, <2>1, SumRemove
<1>10. SumOf(w, s) = w[x] + SumOf(w, r)
  BY <1>2, <1>3, <1>6, SumRemove
<1>11. SumOf(w, r) \in Nat /\ w[x] \in Nat
  <2>1. IsFiniteSet(r) /\ r \in SUBSET B
    BY <1>2, <1>3, FS_Subset
  <2> HIDE DEF r
  <2> QED
    BY <1>2, <1>6, <2>1, SumNat
<1> HIDE DEF D, r
<1> QED
  BY <1>2, <1>4, <1>7, <1>9, <1>10, <1>11

(* More tickets are worth no less.                                         *)
LEMMA SumMonotonic ==
    ASSUME NEW A, NEW B, IsFiniteSet(B), A \subseteq B, NEW w, \A x \in B : w[x] \in Nat
    PROVE  SumOf(w, A) <= SumOf(w, B)
<1> DEFINE C == B \ A
<1>1. IsFiniteSet(A) /\ IsFiniteSet(C) /\ A \cap C = {} /\ A \cup C = B
  BY FS_Subset
<1>2. \A x \in A \cup C : w[x] \in Nat
  OBVIOUS
<1> HIDE DEF C
<1>3. SumOf(w, B) = SumOf(w, A) + SumOf(w, C)
  BY <1>1, <1>2, SumUnion
<1>4. SumOf(w, A) \in Nat /\ SumOf(w, C) \in Nat
  BY <1>1, <1>2, SumNat
<1> QED
  BY <1>3, <1>4

(* Disjoint parts, each summed on its own, add up to the sum of the whole. *)
LEMMA SumOfSums ==
    ASSUME NEW L, IsFiniteSet(L), NEW a, NEW cover, NEW w,
           \A c \in L : /\ IsFiniteSet(cover[c])
                        /\ a[c] = SumOf(w, cover[c])
                        /\ \A x \in cover[c] : w[x] \in Nat,
           \A c, d \in L : c # d => cover[c] \cap cover[d] = {}
    PROVE  /\ IsFiniteSet(UNION {cover[c] : c \in L})
           /\ SumOf(a, L) = SumOf(w, UNION {cover[c] : c \in L})
<1> DEFINE U(s) == UNION {cover[c] : c \in s}
           D == {s \in SUBSET L : ~(IsFiniteSet(U(s)) /\ SumOf(a, s) = SumOf(w, U(s)))}
<1> SUFFICES ASSUME D # {}
             PROVE  FALSE
  OBVIOUS
<1>1. PICK s \in D : \A y \in D : y \subseteq s => y = s
  <2>1. D \subseteq SUBSET L
    OBVIOUS
  <2> HIDE DEF D
  <2> QED
    BY <2>1, SmallestSet
<1>2. s \in SUBSET L /\ ~(IsFiniteSet(U(s)) /\ SumOf(a, s) = SumOf(w, U(s)))
  OBVIOUS
<1>3. s # {}
  <2> SUFFICES ASSUME s = {}
               PROVE  FALSE
    OBVIOUS
  <2>1. U(s) = {}
    OBVIOUS
  <2> QED
    BY <1>2, <2>1, SumOfNone, FS_EmptySet
<1>4. PICK c \in s : TRUE
  BY <1>3
<1> DEFINE r == s \ {c}
<1>5. IsFiniteSet(U(r)) /\ SumOf(a, r) = SumOf(w, U(r))
  <2>1. r \in SUBSET L
    BY <1>2
  <2>2. r \notin D
    <3> HIDE DEF D
    <3> QED
      BY <1>1, <1>4
  <2> HIDE DEF r, U
  <2> QED
    BY <2>1, <2>2
<1>6. U(s) = U(r) \cup cover[c] /\ U(r) \cap cover[c] = {}
  BY <1>2, <1>4
<1>7. \A x \in U(r) \cup cover[c] : w[x] \in Nat
  BY <1>2, <1>4
<1>8. IsFiniteSet(cover[c]) /\ a[c] = SumOf(w, cover[c])
  BY <1>2, <1>4
<1>9. \A d \in s : a[d] \in Nat
  <2> SUFFICES ASSUME NEW d \in s PROVE a[d] \in Nat
    OBVIOUS
  <2>1. IsFiniteSet(cover[d]) /\ a[d] = SumOf(w, cover[d]) /\ \A x \in cover[d] : w[x] \in Nat
    BY <1>2
  <2> QED
    BY <2>1, SumNat
<1>10. IsFiniteSet(s)
  BY <1>2, FS_Subset
<1> HIDE DEF D, U, r
<1>11. SumOf(a, s) = a[c] + SumOf(a, r)
  BY <1>4, <1>9, <1>10, SumRemove DEF r
<1>12. SumOf(w, U(r) \cup cover[c]) = SumOf(w, U(r)) + SumOf(w, cover[c])
  BY <1>5, <1>6, <1>7, <1>8, SumUnion
<1>13. SumOf(w, U(r)) \in Nat /\ SumOf(w, cover[c]) \in Nat
  BY <1>5, <1>7, <1>8, SumNat
<1>14. IsFiniteSet(U(r) \cup cover[c])
  BY <1>5, <1>8, FS_Union
<1>15. IsFiniteSet(U(s)) /\ SumOf(w, U(s)) = SumOf(w, U(r)) + SumOf(w, cover[c])
  BY <1>6, <1>12, <1>14
<1> QED
  BY <1>2, <1>5, <1>8, <1>11, <1>13, <1>15

(* The prizes of a set of tickets are summed by that fold.                 *)
LEMMA PrizeSumIsSum == ASSUME NEW S PROVE PrizeSum(S) = SumOf(Prize, S)
  BY DEF PrizeSum, SumOf, MapThenSumSet, MapThenFoldSet

-----------------------------------------------------------------------------
(* The sum of the prizes of a set of tickets is one of the amounts a       *)
(* PayoutClaim row can hold.                                               *)
LEMMA SumIsAmount ==
    ASSUME NEW c \in Claims
    PROVE  PrizeSum(Bound(c)) \in Amounts
<1>1. Bound(c) \in SUBSET Tickets
  BY DEF Bound
<1> QED
  BY <1>1 DEF Amounts

(* The row literals of the code have the shape of their tables.            *)
LEMMA EmptyValues ==
    /\ NoRow \in ClaimRows
    /\ NoVoucher \in Vouchers
    /\ IdleConfirmer \in Ticks
<1>1. NoRow \in ClaimRows
  BY DEF NoRow, ClaimRows, None, Amounts
<1>2. NoVoucher \in Vouchers
  BY DEF NoVoucher, Vouchers, None, Amounts
<1>3. IdleConfirmer \in Ticks
  BY DEF IdleConfirmer, Ticks
<1> QED
  BY <1>1, <1>2, <1>3

(* Releasing the tickets of a claim keeps them ticket rows.                *)
LEMMA UnbindType ==
    ASSUME TypeOK, NEW c \in Claims
    PROVE  Unbind(c) \in [Tickets -> TicketRows]
<1>1. ASSUME NEW t \in Tickets
      PROVE  [ticket[t] EXCEPT !.claim = NoClaim] \in TicketRows
  BY DEF TypeOK, TicketRows
<1> QED
  BY <1>1 DEF TypeOK, Unbind

(* Finishing a snapshot row keeps the tick's locals well typed.            *)
LEMMA AdvanceType ==
    ASSUME TypeOK, NEW s, NEW x \in SUBSET Claims, Advance(s, x)
    PROVE  conf' \in Ticks
<1>1. [conf EXCEPT !.snap = @ \ {s}, !.used = @ \cup x] \in Ticks
  BY DEF Ticks, TypeOK
<1> QED
  BY <1>1, EmptyValues DEF Advance

-----------------------------------------------------------------------------
(* The environment's steps keep the types.                                 *)
LEMMA EnvironmentType ==
    ASSUME TypeOK, Environment
    PROVE  TypeOK'
<1>1. CASE Tick
  BY <1>1 DEF TypeOK, Tick
<1>2. ASSUME NEW t \in Tickets, Harvested(t)
      PROVE  TypeOK'
  <2>1. [ticket[t] EXCEPT !.win = "CLAIMED_ON_BASE"] \in TicketRows
    BY DEF TypeOK, TicketRows
  <2> QED
    BY <1>2, <2>1 DEF TypeOK, Harvested
<1>3. ASSUME NEW c \in Claims, Land(c)
      PROVE  TypeOK'
  BY <1>3 DEF TypeOK, Land
<1>4. CASE Crash
  <2>1. pc' \in [Claims -> Stages]
    BY <1>4 DEF TypeOK, Crash, Stages
  <2>2. voucher' \in [Claims -> Vouchers]
    BY <1>4, EmptyValues DEF TypeOK, Crash
  <2> QED
    BY <1>4, <2>1, <2>2, EmptyValues DEF TypeOK, Crash
<1> QED
  BY <1>1, <1>2, <1>3, <1>4 DEF Environment

(* The steps of a request keep the types.                                  *)
LEMMA RouteType ==
    ASSUME TypeOK, NEW c \in Claims, Route(c)
    PROVE  TypeOK'
<1>1. CASE CheckExisting(c)
  <2>1. pc' \in [Claims -> Stages]
    BY <1>1 DEF TypeOK, CheckExisting, Stages
  <2> QED
    BY <1>1, <2>1 DEF TypeOK, CheckExisting
<1>2. CASE CreateRow(c)
  <2>1. Cardinality(Begun) + 1 \in Nat
    BY PayoutConstants, FS_Subset, FS_CardinalityType DEF Begun
  <2>2. [NoRow EXCEPT !.status = "PENDING", !.createdAt = now,
                      !.seq = Cardinality(Begun) + 1] \in ClaimRows
    BY <2>1, EmptyValues DEF TypeOK, ClaimRows
  <2>3. row' \in [Claims -> ClaimRows]
    BY <1>2, <2>2 DEF TypeOK, CreateRow
  <2>4. pc' \in [Claims -> Stages]
    BY <1>2 DEF TypeOK, CreateRow, Stages
  <2> QED
    BY <1>2, <2>3, <2>4 DEF TypeOK, CreateRow
<1>3. CASE BindTickets(c)
  <2>1. \A t \in Tickets : [ticket[t] EXCEPT !.claim = c] \in TicketRows
    BY DEF TypeOK, TicketRows
  <2>2. ticket' \in [Tickets -> TicketRows]
    BY <1>3, <2>1 DEF TypeOK, BindTickets
  <2>3. pc' \in [Claims -> Stages]
    BY <1>3 DEF TypeOK, BindTickets, Stages
  <2> QED
    BY <1>3, <2>2, <2>3 DEF TypeOK, BindTickets
<1>4. CASE Total(c)
  <2>1. Bound(c) \in SUBSET Tickets
    BY DEF Bound
  <2>2. [voucher[c] EXCEPT !.amount = PrizeSum(Bound(c)), !.covers = Bound(c)]
          \in Vouchers
    BY <2>1, SumIsAmount DEF TypeOK, Vouchers
  <2>3. voucher' \in [Claims -> Vouchers]
    BY <1>4, <2>2 DEF TypeOK, Total
  <2>4. pc' \in [Claims -> Stages]
    BY <1>4 DEF TypeOK, Total, Stages
  <2> QED
    BY <1>4, <2>3, <2>4 DEF TypeOK, Total
<1>5. CASE BuildVoucher(c)
  <2>1. now + Validity \in Nat
    BY PayoutConstants DEF TypeOK
  <2>2. [voucher[c] EXCEPT !.lvbh = now + Validity] \in Vouchers
    BY <2>1 DEF TypeOK, Vouchers
  <2>3. voucher' \in [Claims -> Vouchers]
    BY <1>5, <2>2 DEF TypeOK, BuildVoucher
  <2>4. pc' \in [Claims -> Stages]
    BY <1>5 DEF TypeOK, BuildVoucher, Stages
  <2> QED
    BY <1>5, <2>3, <2>4 DEF TypeOK, BuildVoucher
<1>6. CASE StampAndReturn(c)
  <2>1. voucher[c].amount \in Amounts /\ voucher[c].lvbh \in Nat
    BY DEF TypeOK, Vouchers
  <2>2. [row[c] EXCEPT !.amount = voucher[c].amount, !.lvbh = voucher[c].lvbh]
          \in ClaimRows
    BY <2>1 DEF TypeOK, ClaimRows
  <2>3. row' \in [Claims -> ClaimRows]
    BY <1>6, <2>2 DEF TypeOK, StampAndReturn
  <2>4. pc' \in [Claims -> Stages]
    BY <1>6 DEF TypeOK, StampAndReturn, Stages
  <2> QED
    BY <1>6, <2>3, <2>4 DEF TypeOK, StampAndReturn
<1>7. CASE AbandonVoucher(c)
  <2>1. voucher' \in [Claims -> Vouchers]
    BY <1>7, EmptyValues DEF TypeOK, AbandonVoucher
  <2>2. pc' \in [Claims -> Stages]
    BY <1>7 DEF TypeOK, AbandonVoucher, Stages
  <2> QED
    BY <1>7, <2>1, <2>2, UnbindType DEF TypeOK, AbandonVoucher
<1>8. CASE DeleteRow(c)
  <2>1. row' \in [Claims -> ClaimRows]
    BY <1>8, EmptyValues DEF TypeOK, DeleteRow
  <2>2. pc' \in [Claims -> Stages]
    BY <1>8 DEF TypeOK, DeleteRow, Stages
  <2> QED
    BY <1>8, <2>1, <2>2, UnbindType DEF TypeOK, DeleteRow
<1>9. CASE RequestFails(c)
  <2>1. voucher' \in [Claims -> Vouchers]
    BY <1>9, EmptyValues DEF TypeOK, RequestFails
  <2>2. pc' \in [Claims -> Stages]
    BY <1>9 DEF TypeOK, RequestFails, Stages
  <2> QED
    BY <1>9, <2>1, <2>2 DEF TypeOK, RequestFails
<1> QED
  BY <1>1, <1>2, <1>3, <1>4, <1>5, <1>6, <1>7, <1>8, <1>9 DEF Route, Handler

(* The confirmer's steps keep the types.                                   *)
LEMMA ConfirmerType ==
    ASSUME TypeOK, Confirmer
    PROVE  TypeOK'
<1>1. CASE ReadPending
  <2>1. Snapshot \subseteq SnapRows
    BY DEF Snapshot, SnapRows, Pending, TypeOK, ClaimRows
  <2>2. [IdleConfirmer EXCEPT !.pc = "sweeping", !.start = now, !.snap = Snapshot]
          \in Ticks
    BY <2>1, EmptyValues DEF Ticks, TypeOK
  <2> QED
    BY <1>1, <2>2 DEF TypeOK, ReadPending
<1>2. CASE SweepComplete
  <2>1. \A seen \in SUBSET Claims :
          [conf EXCEPT !.pc = "swept", !.complete = TRUE, !.seen = seen,
                       !.sweptAt = now] \in Ticks
    BY DEF Ticks, TypeOK
  <2>2. PICK seen \in SUBSET Landed :
             conf' = [conf EXCEPT !.pc = "swept", !.complete = TRUE,
                                  !.seen = seen, !.sweptAt = now]
    BY <1>2 DEF SweepComplete
  <2>3. seen \in SUBSET Claims
    BY <2>2 DEF Landed
  <2>4. conf' \in Ticks
    BY <2>1, <2>2, <2>3
  <2>5. UNCHANGED <<now, ticket, row, pc, voucher, landed>>
    BY <1>2 DEF SweepComplete
  <2> QED
    BY <2>4, <2>5 DEF TypeOK
<1>3. CASE SweepTruncated
  <2>1. \A seen \in SUBSET Claims :
          [conf EXCEPT !.pc = "swept", !.complete = FALSE, !.seen = seen,
                       !.sweptAt = now] \in Ticks
    BY DEF Ticks, TypeOK
  <2>2. PICK seen \in SUBSET Landed :
             conf' = [conf EXCEPT !.pc = "swept", !.complete = FALSE,
                                  !.seen = seen, !.sweptAt = now]
    BY <1>3 DEF SweepTruncated
  <2>3. seen \in SUBSET Claims
    BY <2>2 DEF Landed
  <2>4. conf' \in Ticks
    BY <2>1, <2>2, <2>3
  <2>5. UNCHANGED <<now, ticket, row, pc, voucher, landed>>
    BY <1>3 DEF SweepTruncated
  <2> QED
    BY <2>4, <2>5 DEF TypeOK
<1>4. CASE SweepFailed
  BY <1>4, EmptyValues DEF TypeOK, SweepFailed
<1>5. CASE ReadHeight
  <2>1. {row[c].sig : c \in Claims} \ {NoClaim} \subseteq Claims
    BY DEF TypeOK, ClaimRows
  <2>2. [conf EXCEPT !.pc = "resolving", !.height = now,
                     !.used = {row[c].sig : c \in Claims} \ {NoClaim}] \in Ticks
    BY <2>1 DEF Ticks, TypeOK
  <2> QED
    BY <1>5, <2>2 DEF TypeOK, ReadHeight
<1>6. ASSUME NEW s \in conf.snap, NEW x \in conf.seen, ConfirmRow(s, x)
      PROVE  TypeOK'
  <2>1. s.id \in Claims /\ x \in Claims
    BY DEF TypeOK, Ticks, SnapRows
  <2>2. conf' \in Ticks
    BY <1>6, <2>1, AdvanceType DEF ConfirmRow
  <2>3. [row[s.id] EXCEPT !.status = "CONFIRMED", !.sig = x] \in ClaimRows
    <3>1. row[s.id] \in ClaimRows
      BY <2>1 DEF TypeOK
    <3> QED
      BY <2>1, <3>1 DEF ClaimRows
  <2>4. row' \in [Claims -> ClaimRows]
    BY <1>6, <2>3 DEF TypeOK, ConfirmRow
  <2>5. \A t \in Tickets :
          [ticket[t] EXCEPT !.win = "PAID_OUT_ON_SOLANA"] \in TicketRows
    BY DEF TypeOK, TicketRows
  <2>6. ticket' \in [Tickets -> TicketRows]
    BY <1>6, <2>5 DEF TypeOK, ConfirmRow
  <2> QED
    BY <1>6, <2>2, <2>4, <2>6 DEF TypeOK, ConfirmRow
<1>7. ASSUME NEW s \in conf.snap, ReleaseRow(s)
      PROVE  TypeOK'
  <2>1. s.id \in Claims
    BY DEF TypeOK, Ticks, SnapRows
  <2>2. conf' \in Ticks
    BY <1>7, AdvanceType DEF ReleaseRow
  <2>3. [row[s.id] EXCEPT !.status = "EXPIRED"] \in ClaimRows
    BY <2>1 DEF TypeOK, ClaimRows
  <2>4. row' \in [Claims -> ClaimRows]
    BY <1>7, <2>3 DEF TypeOK, ReleaseRow
  <2>5. ticket' \in [Tickets -> TicketRows]
    BY <1>7, <2>1, UnbindType DEF TypeOK, ReleaseRow
  <2> QED
    BY <1>7, <2>2, <2>4, <2>5 DEF TypeOK, ReleaseRow
<1>8. ASSUME NEW s \in conf.snap, KeepWaiting(s)
      PROVE  TypeOK'
  <2>1. conf' \in Ticks
    BY <1>8, AdvanceType DEF KeepWaiting
  <2> QED
    BY <1>8, <2>1 DEF TypeOK, KeepWaiting
<1>9. ASSUME NEW s \in conf.snap, ResolveFailed(s)
      PROVE  TypeOK'
  <2>1. \A x \in Candidates(s) : {x} \in SUBSET Claims
    BY DEF Candidates, TypeOK, Ticks
  <2>2. conf' \in Ticks
    BY <1>9, <2>1, AdvanceType DEF ResolveFailed
  <2> QED
    BY <1>9, <2>2 DEF TypeOK, ResolveFailed
<1> QED
  BY <1>1, <1>2, <1>3, <1>4, <1>5, <1>6, <1>7, <1>8, <1>9
  DEF Confirmer, Settle, Resolve, ReleaseUnsigned, ExpireRow

(* The initial state has the types.                                        *)
LEMMA TypeInit == Init => TypeOK
<1> SUFFICES ASSUME Init
             PROVE  TypeOK
  OBVIOUS
<1>1. ticket \in [Tickets -> TicketRows]
  BY DEF Init, TicketRows
<1>2. pc \in [Claims -> Stages]
  BY DEF Init, Stages
<1> QED
  BY <1>1, <1>2, EmptyValues DEF TypeOK, Init

(* Every step keeps the types.                                             *)
LEMMA TypeStep == TypeOK /\ [Next]_vars => TypeOK'
<1>1. TypeOK /\ UNCHANGED vars => TypeOK'
  BY DEF TypeOK, vars
<1> QED
  BY <1>1, EnvironmentType, RouteType, ConfirmerType DEF Next

(* Type correctness of the payout path: rows, request locals and tick      *)
(* locals keep their shape through every step.                             *)
THEOREM TypeCorrect == Spec => []TypeOK
<1> QED
  BY TypeInit, TypeStep, PTL DEF Spec

-----------------------------------------------------------------------------
(* The integers of a well-typed state.                                     *)
LEMMA Fields ==
    ASSUME TypeOK
    PROVE  /\ now \in Nat
           /\ \A c \in Claims : /\ row[c].createdAt \in Nat
                                /\ row[c].lvbh \in Nat
                                /\ voucher[c].lvbh \in Nat
                                /\ landed[c] \in Nat
                                /\ row[c].sig \in Claims \cup {NoClaim}
                                /\ pc[c] \in Stages
                                /\ row[c].status \in {"absent", "PENDING", "CONFIRMED", "EXPIRED"}
           /\ conf.start \in Nat /\ conf.sweptAt \in Nat /\ conf.height \in Nat
           /\ conf.seen \subseteq Claims /\ conf.used \subseteq Claims
           /\ \A s \in conf.snap : /\ s.id \in Claims
                                   /\ s.createdAt \in Nat
                                   /\ s.lvbh \in Nat
           /\ \A t \in Tickets : ticket[t].claim \in Claims \cup {NoClaim}
<1>1. \A c \in Claims : row[c] \in ClaimRows /\ voucher[c] \in Vouchers
  BY DEF TypeOK
<1>2. \A t \in Tickets : ticket[t] \in TicketRows
  BY DEF TypeOK
<1>3. conf \in Ticks
  BY DEF TypeOK
<1>4. \A s \in conf.snap : s \in SnapRows
  BY <1>3 DEF Ticks
<1> QED
  BY <1>1, <1>2, <1>3, <1>4 DEF TypeOK, ClaimRows, Vouchers, TicketRows, Ticks, SnapRows

(* The integers among the constants.                                       *)
LEMMA Constants ==
    /\ Validity \in Nat /\ ExpiryBuffer \in Nat /\ UnsignedGrace \in Nat
    /\ ClockSkew \in Nat /\ RouteBudget \in Nat /\ TickBudget \in Nat
    /\ SweepBudget \in Nat /\ RpcLag \in Nat /\ NoClaim \notin Claims
  BY PayoutConstants

-----------------------------------------------------------------------------
(* The initial state satisfies the inductive invariant.                    *)
LEMMA InvInit == Init => IInv
<1> SUFFICES ASSUME Init
             PROVE  IInv
  OBVIOUS
<1>1. \A c \in Claims : RequestInv(c) /\ RowInv(c)
  <2> TAKE c \in Claims
  <2>1. Bound(c) = {}
    BY Constants DEF Init, Bound
  <2>2. pc[c] = "idle" /\ row[c] = NoRow /\ landed[c] = 0 /\ now = 1
    BY DEF Init
  <2> QED
    BY <2>1, <2>2 DEF RequestInv, RowInv, Issuing, NoRow, None
<1>2. \A t \in Tickets : TicketInv(t)
  BY DEF Init, TicketInv
<1>3. SerialInv
  BY DEF Init, SerialInv, Busy, InFlight, NoRow
<1>4. (\A s \in conf.snap : SnapInv(s)) /\ TickInv
  BY DEF Init, TickInv, IdleConfirmer, Landed
<1> QED
  BY <1>1, <1>2, <1>3, <1>4 DEF IInv, Init

(* A block passes: the budgets keep requests and tick inside their bounds. *)
LEMMA InvTick ==
    ASSUME Environmental, TypeOK, IInv, Tick
    PROVE  IInv'
<1> USE Fields, Constants
<1>1. \A c \in Claims : RequestInv(c)' /\ RowInv(c)'
  <2> TAKE c \in Claims
  <2>1. RequestInv(c) /\ RowInv(c)
    BY DEF IInv
  <2>2. RequestInv(c)'
    BY <2>1 DEF Tick, RequestInv, Bound, Issuing
  <2>3. RowInv(c)'
    BY <2>1 DEF Tick, RowInv, Bound
  <2> QED
    BY <2>2, <2>3
<1>2. \A t \in Tickets : TicketInv(t)'
  BY DEF IInv, Tick, TicketInv
<1>3. SerialInv'
  BY DEF IInv, Tick, SerialInv, Busy
<1>4. \A s \in conf.snap' : SnapInv(s)'
  BY DEF IInv, Tick, SnapInv
<1>5. TickInv'
  BY DEF IInv, Tick, TickInv, Landed
<1> QED
  BY <1>1, <1>2, <1>3, <1>4, <1>5 DEF IInv, Tick

(* A harvest touches one unbound ticket.                                   *)
LEMMA InvHarvested ==
    ASSUME Environmental, TypeOK, IInv, NEW t \in Tickets, Harvested(t)
    PROVE  IInv'
<1> USE Fields, Constants
<1>1. \A u \in Tickets : ticket'[u].claim = ticket[u].claim
  BY DEF TypeOK, TicketRows, Harvested
<1>2. \A u \in Tickets : u # t => ticket'[u] = ticket[u]
  BY DEF TypeOK, Harvested
<1>3. \A c : Bound(c)' = Bound(c)
  BY <1>1 DEF Bound
<1>4. \A c \in Claims : RequestInv(c)' /\ RowInv(c)'
  BY <1>3 DEF IInv, Harvested, RequestInv, RowInv
<1>5. \A u \in Tickets : TicketInv(u)'
  <2>1. ticket[t].claim = NoClaim /\ ticket'[t].win = "CLAIMED_ON_BASE"
    BY DEF IInv, TicketInv, Harvested, TypeOK, TicketRows
  <2> QED
    BY <1>1, <1>2, <2>1 DEF IInv, TicketInv, Harvested
<1>6. SerialInv' /\ TickInv' /\ \A s \in conf.snap' : SnapInv(s)'
  BY DEF IInv, Harvested, SerialInv, Busy, TickInv, SnapInv, Landed
<1> QED
  BY <1>4, <1>5, <1>6 DEF IInv, Harvested

(* A landing happens inside the voucher's validity, so before any expiry.  *)
LEMMA InvLand ==
    ASSUME Environmental, TypeOK, IInv, NEW c \in Claims, Land(c)
    PROVE  IInv'
<1> USE Fields, Constants
<1>1. \A d \in Claims : landed'[d] = IF d = c THEN now ELSE landed[d]
  BY DEF TypeOK, Land
<1>2. \A d \in Claims : RequestInv(d)' /\ RowInv(d)'
  <2> TAKE d \in Claims
  <2>1. RequestInv(d) /\ RowInv(d) /\ now >= 1
    BY DEF IInv
  <2>2. RequestInv(d)'
    BY <1>1, <2>1 DEF Land, RequestInv, Bound
  <2>3. RowInv(d)'
    BY <1>1, <2>1 DEF Land, RowInv, RequestInv, Bound, Issuing
  <2> QED
    BY <2>2, <2>3
<1>3. (\A t \in Tickets : TicketInv(t)') /\ SerialInv'
  BY DEF IInv, Land, TicketInv, SerialInv, Busy
<1>4. \A s \in conf.snap' : SnapInv(s)'
  BY DEF IInv, Land, SnapInv
<1>5. TickInv'
  <2>1. Landed' = Landed \cup {c} /\ c \notin Landed
    BY <1>1 DEF Landed, Land, IInv
  <2> QED
    BY <1>1, <2>1 DEF IInv, Land, TickInv, Landed
<1> QED
  BY <1>2, <1>3, <1>4, <1>5 DEF IInv, Land

(* A crash ends the requests in flight; what they left in the tables stays.*)
LEMMA InvCrash ==
    ASSUME Environmental, TypeOK, IInv, Crash
    PROVE  IInv'
<1> USE Fields, Constants
<1>1. \A c \in Claims : /\ pc'[c] = IF pc[c] \in InFlight THEN "ended" ELSE pc[c]
                        /\ pc[c] \notin InFlight => voucher'[c] = voucher[c]
  BY Zenon DEF Crash
<1>2. \A c : Bound(c)' = Bound(c)
  BY DEF Bound, Crash
<1>3. \A c \in Claims : RequestInv(c)' /\ RowInv(c)'
  <2> TAKE c \in Claims
  <2>1. RequestInv(c) /\ RowInv(c)
    BY DEF IInv
  <2>2. CASE pc[c] \in InFlight
    BY <1>1, <1>2, <2>1, <2>2 DEF Crash, RequestInv, RowInv, InFlight, Issuing
  <2>3. CASE pc[c] \notin InFlight
    BY <1>1, <1>2, <2>1, <2>3 DEF Crash, RequestInv, RowInv, InFlight, Issuing
  <2> QED
    BY <2>2, <2>3
<1>4. \A t \in Tickets : TicketInv(t)'
  BY DEF IInv, Crash, TicketInv
<1>5. SerialInv'
  BY <1>1 DEF IInv, Crash, SerialInv, Busy, InFlight
<1>6. TickInv' /\ \A s \in conf.snap' : SnapInv(s)'
  BY DEF IInv, Crash, TickInv, SnapInv, IdleConfirmer, Landed
<1> QED
  BY <1>3, <1>4, <1>5, <1>6 DEF IInv, Crash

-----------------------------------------------------------------------------
(* A step that leaves everything known of claim d alone.                   *)
SameClaim(d) ==
    /\ now' = now
    /\ pc'[d] = pc[d] /\ row'[d] = row[d] /\ voucher'[d] = voucher[d]
    /\ landed'[d] = landed[d]
    /\ Bound(d)' = Bound(d)

(* Such a step keeps what the invariant says of the claim.                 *)
LEMMA ClaimFrame ==
    ASSUME NEW d \in Claims, SameClaim(d), RequestInv(d), RowInv(d)
    PROVE  RequestInv(d)' /\ RowInv(d)'
<1>1. RequestInv(d)'
  BY DEF SameClaim, RequestInv
<1>2. RowInv(d)'
  BY DEF SameClaim, RowInv
<1> QED
  BY <1>1, <1>2

(* A step of the request of claim c keeps the invariant once it does so    *)
(* for the claim itself, its tickets and the tick's copy of its row.       *)
LEMMA RouteFrame ==
    ASSUME TypeOK, IInv, NEW c \in Claims,
           now' = now, landed' = landed, conf' = conf,
           \A d \in Claims \ {c} : SameClaim(d),
           RequestInv(c)', RowInv(c)',
           \A t \in Tickets : TicketInv(t)',
           row'[c].status # "CONFIRMED",
           \A s \in conf.snap : s.id = c => SnapInv(s)',
           Busy(c)' => \/ Busy(c)
                       \/ \A d \in Claims \ {c} : Requester[d] = Requester[c] => ~Busy(d)
    PROVE  IInv'
<1>1. \A d \in Claims : RequestInv(d)' /\ RowInv(d)'
  BY ClaimFrame DEF IInv
<1>2. \A d \in Claims \ {c} : Busy(d)' = Busy(d)
  BY DEF Busy, SameClaim
<1>3. SerialInv'
  BY <1>2 DEF IInv, SerialInv
<1>4. \A s \in conf.snap' : SnapInv(s)'
  <2> SUFFICES ASSUME NEW s \in conf.snap, s.id # c
               PROVE  SnapInv(s)'
    OBVIOUS
  <2>1. SnapInv(s) /\ SameClaim(s.id)
    BY Fields DEF IInv
  <2> QED
    BY <2>1 DEF SnapInv, SameClaim
<1>5. TickInv'
  <2>1. \A d \in Claims : row'[d].status = "CONFIRMED" => row[d].status = "CONFIRMED"
    BY DEF SameClaim
  <2> QED
    BY <2>1 DEF IInv, TickInv, Landed
<1> QED
  BY <1>1, <1>3, <1>4, <1>5 DEF IInv

(* The existing-voucher check admits a request of a wallet that is not     *)
(* busy with another one.                                                  *)
LEMMA InvCheckExisting ==
    ASSUME Environmental, TypeOK, IInv, NEW c \in Claims, CheckExisting(c)
    PROVE  IInv'
<1> USE DEF CheckExisting
<1>1. pc[c] = "idle" /\ pc'[c] = "checked"
  BY DEF TypeOK
<1>2. \A d \in Claims \ {c} : SameClaim(d)
  BY DEF TypeOK, SameClaim, Bound
<1>3. RequestInv(c) /\ RowInv(c)
  BY DEF IInv
<1>4. RequestInv(c)' /\ RowInv(c)'
  BY <1>1, <1>3 DEF RequestInv, RowInv, Bound, Issuing
<1>5. \A t \in Tickets : TicketInv(t)'
  BY DEF IInv, TicketInv
<1>6. \A s \in conf.snap : s.id # c
  BY <1>1 DEF IInv, SnapInv
<1>7. \A d \in Claims \ {c} : Requester[d] = Requester[c] => ~Busy(d)
  BY DEF Environmental, Busy, LiveRow
<1>8. row'[c].status # "CONFIRMED"
  BY <1>1, <1>3 DEF RequestInv
<1> QED
  BY <1>2, <1>4, <1>5, <1>6, <1>7, <1>8, RouteFrame

(* A new row is empty and unexpired, and no ticket hangs on it yet.        *)
LEMMA InvCreateRow ==
    ASSUME Environmental, TypeOK, IInv, NEW c \in Claims, CreateRow(c)
    PROVE  IInv'
<1> USE DEF CreateRow
<1>1. pc[c] = "checked" /\ pc'[c] = "created"
  BY DEF TypeOK
<1>2. \A d \in Claims \ {c} : SameClaim(d)
  BY DEF TypeOK, SameClaim, Bound
<1>3. RequestInv(c) /\ RowInv(c)
  BY DEF IInv
<1>4. /\ row'[c].status = "PENDING" /\ row'[c].createdAt = now
      /\ row'[c].lvbh = None /\ row'[c].amount = 0 /\ row'[c].sig = NoClaim
  BY DEF TypeOK, NoRow
<1>5. RequestInv(c)'
  BY <1>1, <1>3, <1>4, Fields, Constants DEF RequestInv, Issuing
<1>6. RowInv(c)'
  BY <1>1, <1>3, <1>4, Fields DEF RequestInv, RowInv
<1>7. \A t \in Tickets : TicketInv(t)'
  <2> TAKE t \in Tickets
  <2>1. TicketInv(t) /\ ticket[t].claim # c
    BY <1>1, <1>3 DEF IInv, RequestInv, Bound
  <2>2. ticket[t].claim \in Claims \ {c} => row'[ticket[t].claim] = row[ticket[t].claim]
    BY <1>2 DEF SameClaim
  <2> QED
    BY <2>1, <2>2, Fields DEF TicketInv
<1>8. \A s \in conf.snap : s.id # c
  BY <1>1 DEF IInv, SnapInv
<1>9. Busy(c)
  BY <1>1 DEF Busy, InFlight
<1> QED
  BY <1>2, <1>4, <1>5, <1>6, <1>7, <1>8, <1>9, RouteFrame

(* Only unbound tickets are bound, and to a row that is still pending.     *)
LEMMA InvBindTickets ==
    ASSUME Environmental, TypeOK, IInv, NEW c \in Claims, BindTickets(c)
    PROVE  IInv'
<1> USE DEF BindTickets
<1>1. pc[c] = "created" /\ pc'[c] = "bound"
  BY DEF TypeOK
<1>2. \A t \in Tickets : \/ ticket'[t] = ticket[t]
                         \/ /\ ticket[t].claim = NoClaim
                            /\ ticket'[t].claim = c
                            /\ ticket'[t].win = "CLAIMED_ON_BASE"
  <2> SUFFICES ASSUME NEW t \in Bindable(Requester[c])
               PROVE  /\ ticket[t].claim = NoClaim
                      /\ ticket'[t].claim = c
                      /\ ticket'[t].win = "CLAIMED_ON_BASE"
    BY DEF Bindable
  <2>1. t \in Tickets /\ ticket[t].win = "CLAIMED_ON_BASE" /\ ticket[t].claim = NoClaim
    BY DEF Bindable
  <2>2. ticket[t] \in TicketRows
    BY <2>1 DEF TypeOK
  <2> QED
    BY <2>1, <2>2 DEF TicketRows
<1>3. \A d \in Claims \ {c} : Bound(d)' = Bound(d)
  BY <1>2, Constants DEF Bound
<1>4. \A d \in Claims \ {c} : SameClaim(d)
  BY <1>3 DEF TypeOK, SameClaim
<1>5. RequestInv(c) /\ RowInv(c)
  BY DEF IInv
<1>6. row[c].status = "PENDING" /\ row[c].status # "CONFIRMED"
  BY <1>1, <1>5 DEF RequestInv, Issuing
<1>7. RequestInv(c)' /\ RowInv(c)'
  BY <1>1, <1>5, <1>6 DEF RequestInv, RowInv, Issuing
<1>8. \A t \in Tickets : TicketInv(t)'
  BY <1>2, <1>6, Constants DEF IInv, TicketInv
<1>9. \A s \in conf.snap : s.id = c => SnapInv(s)'
  BY <1>1 DEF IInv, SnapInv, Issuing
<1>10. Busy(c)
  BY <1>1 DEF Busy, InFlight
<1> QED
  BY <1>4, <1>6, <1>7, <1>8, <1>9, <1>10, RouteFrame

(* The total is taken over exactly the tickets bound to the row.           *)
LEMMA InvTotal ==
    ASSUME Environmental, TypeOK, IInv, NEW c \in Claims, Total(c)
    PROVE  IInv'
<1> USE DEF Total
<1>1. pc[c] = "bound" /\ pc'[c] \in {"totalled", "unwinding"}
  BY DEF TypeOK
<1>2. \A d \in Claims \ {c} : SameClaim(d)
  BY DEF TypeOK, SameClaim, Bound
<1>3. RequestInv(c) /\ RowInv(c)
  BY DEF IInv
<1>4. pc'[c] = "totalled" => voucher'[c].covers = Bound(c) /\ voucher'[c].amount # 0
  <2> SUFFICES ASSUME pc'[c] = "totalled"
               PROVE  voucher'[c].covers = Bound(c) /\ voucher'[c].amount # 0
    OBVIOUS
  <2>1. PrizeSum(Bound(c)) # 0
    BY DEF TypeOK
  <2>2. voucher'[c] = [voucher[c] EXCEPT !.amount = PrizeSum(Bound(c)),
                                         !.covers = Bound(c)]
    BY <2>1 DEF TypeOK
  <2>3. voucher[c] \in Vouchers
    BY DEF TypeOK
  <2> QED
    BY <2>1, <2>2, <2>3 DEF Vouchers
<1>5. Bound(c)' = Bound(c)
  BY DEF Bound
<1>6. row[c].status = "PENDING" /\ row[c].status # "CONFIRMED" /\ landed[c] = 0
  BY <1>1, <1>3 DEF RequestInv, Issuing
<1>7. RequestInv(c)' /\ RowInv(c)'
  BY <1>1, <1>3, <1>4, <1>5, <1>6 DEF RequestInv, RowInv, Issuing
<1>8. \A t \in Tickets : TicketInv(t)'
  BY DEF IInv, TicketInv
<1>9. \A s \in conf.snap : s.id = c => SnapInv(s)'
  BY <1>1 DEF IInv, SnapInv, Issuing
<1>10. Busy(c)
  BY <1>1 DEF Busy, InFlight
<1> QED
  BY <1>2, <1>6, <1>7, <1>8, <1>9, <1>10, RouteFrame

(* The co-signature fixes the last block in which the claim can land.      *)
LEMMA InvBuildVoucher ==
    ASSUME Environmental, TypeOK, IInv, NEW c \in Claims, BuildVoucher(c)
    PROVE  IInv'
<1> USE DEF BuildVoucher
<1>1. pc[c] = "totalled" /\ pc'[c] = "built"
  BY DEF TypeOK
<1>2. \A d \in Claims \ {c} : SameClaim(d)
  BY DEF TypeOK, SameClaim, Bound
<1>3. RequestInv(c) /\ RowInv(c)
  BY DEF IInv
<1>4. /\ voucher'[c].covers = voucher[c].covers
      /\ voucher'[c].amount = voucher[c].amount
      /\ voucher'[c].lvbh # None
  <2>1. voucher'[c] = [voucher[c] EXCEPT !.lvbh = now + Validity]
    BY DEF TypeOK
  <2>2. voucher[c] \in Vouchers
    BY DEF TypeOK
  <2>3. now + Validity # 0
    BY Fields, Constants DEF IInv
  <2> QED
    BY <2>1, <2>2, <2>3 DEF Vouchers, None
<1>5. Bound(c)' = Bound(c)
  BY DEF Bound
<1>6. row[c].status = "PENDING" /\ row[c].status # "CONFIRMED" /\ landed[c] = 0
  BY <1>1, <1>3 DEF RequestInv, Issuing
<1>7. RequestInv(c)' /\ RowInv(c)'
  BY <1>1, <1>3, <1>4, <1>5, <1>6 DEF RequestInv, RowInv, Issuing
<1>8. \A t \in Tickets : TicketInv(t)'
  BY DEF IInv, TicketInv
<1>9. \A s \in conf.snap : s.id = c => SnapInv(s)'
  BY <1>1 DEF IInv, SnapInv, Issuing
<1>10. Busy(c)
  BY <1>1 DEF Busy, InFlight
<1> QED
  BY <1>2, <1>6, <1>7, <1>8, <1>9, <1>10, RouteFrame

(* The stamp changes the two fields it names.                              *)
LEMMA StampedRow ==
    ASSUME NEW r \in ClaimRows, NEW a, NEW l
    PROVE  LET s == [r EXCEPT !.amount = a, !.lvbh = l]
           IN  /\ s.status = r.status /\ s.createdAt = r.createdAt /\ s.sig = r.sig
               /\ s.lvbh = l /\ s.amount = a
<1>1. DOMAIN r = {"status", "createdAt", "seq", "lvbh", "amount", "sig"}
  BY DEF ClaimRows
<1>2. "lvbh" # "amount"
  OBVIOUS
<1> QED
  BY <1>1, <1>2

(* The stamp reaches a row that is still pending, with the voucher's own   *)
(* amount and expiry.                                                      *)
LEMMA InvStampAndReturn ==
    ASSUME Environmental, TypeOK, IInv, NEW c \in Claims, StampAndReturn(c)
    PROVE  IInv'
<1> USE DEF StampAndReturn
<1>1. pc[c] = "built" /\ pc'[c] = "issued"
  BY DEF TypeOK
<1>2. \A d \in Claims \ {c} : SameClaim(d)
  BY DEF TypeOK, SameClaim, Bound
<1>3. RequestInv(c) /\ RowInv(c)
  BY DEF IInv
<1>4. /\ row'[c].status = row[c].status
      /\ row'[c].createdAt = row[c].createdAt
      /\ row'[c].sig = row[c].sig
      /\ row'[c].lvbh = voucher[c].lvbh
      /\ row'[c].amount = voucher[c].amount
  <2>1. row'[c] = [row[c] EXCEPT !.amount = voucher[c].amount,
                                 !.lvbh = voucher[c].lvbh]
    BY DEF TypeOK
  <2>2. row[c] \in ClaimRows
    BY DEF TypeOK
  <2> HIDE DEF StampAndReturn
  <2>. QED
    BY <2>1, <2>2, StampedRow
<1>5. Bound(c)' = Bound(c)
  BY DEF Bound
<1>6. row[c].status = "PENDING" /\ row'[c].status # "CONFIRMED" /\ landed[c] = 0
  BY <1>1, <1>3, <1>4 DEF RequestInv, Issuing
<1>7. RequestInv(c)' /\ RowInv(c)'
  BY <1>1, <1>3, <1>4, <1>5, <1>6 DEF RequestInv, RowInv, Issuing
<1>8. \A d \in Claims : row'[d].status = row[d].status
  BY <1>2, <1>4 DEF SameClaim
<1>9. \A t \in Tickets : TicketInv(t)'
  BY <1>8, Fields DEF IInv, TicketInv
<1>10. \A s \in conf.snap : s.id = c => SnapInv(s)'
  BY <1>1, <1>4 DEF IInv, SnapInv, Issuing
<1>11. Busy(c)
  BY <1>1 DEF Busy, InFlight
<1> QED
  BY <1>2, <1>6, <1>7, <1>9, <1>10, <1>11, RouteFrame

(* Releasing the tickets of a claim empties it and disturbs no other.      *)
LEMMA UnbindEffect ==
    ASSUME TypeOK, NEW c \in Claims, ticket' = Unbind(c)
    PROVE  /\ \A t \in Tickets : /\ ticket'[t].win = ticket[t].win
                                 /\ ticket'[t].claim = IF ticket[t].claim = c
                                                        THEN NoClaim
                                                        ELSE ticket[t].claim
           /\ Bound(c)' = {}
           /\ \A d \in Claims \ {c} : Bound(d)' = Bound(d)
<1>1. \A t \in Tickets : ticket[t] \in TicketRows
  BY DEF TypeOK
<1>2. \A t \in Tickets : ticket'[t] = IF ticket[t].claim = c
                                      THEN [ticket[t] EXCEPT !.claim = NoClaim]
                                      ELSE ticket[t]
  BY DEF Unbind
<1>3. \A t \in Tickets : /\ ticket'[t].win = ticket[t].win
                         /\ ticket'[t].claim = IF ticket[t].claim = c
                                                THEN NoClaim
                                                ELSE ticket[t].claim
  BY <1>1, <1>2 DEF TicketRows
<1>4. Bound(c)' = {} /\ \A d \in Claims \ {c} : Bound(d)' = Bound(d)
  BY <1>3, Constants DEF Bound
<1> QED
  BY <1>3, <1>4

(* Giving up releases tickets that were never paid.                        *)
LEMMA InvAbandonVoucher ==
    ASSUME Environmental, TypeOK, IInv, NEW c \in Claims, AbandonVoucher(c)
    PROVE  IInv'
<1> USE DEF AbandonVoucher
<1>1. pc[c] \in {"totalled", "built"} /\ pc'[c] = "unwinding"
  BY DEF TypeOK
<1>2. \A d \in Claims \ {c} : SameClaim(d)
  BY UnbindEffect DEF TypeOK, SameClaim
<1>3. RequestInv(c) /\ RowInv(c)
  BY DEF IInv
<1>4. row[c].status = "PENDING" /\ row[c].status # "CONFIRMED" /\ landed[c] = 0
  BY <1>1, <1>3 DEF RequestInv, Issuing
<1>5. RequestInv(c)' /\ RowInv(c)'
  BY <1>1, <1>3, <1>4, UnbindEffect DEF RequestInv, RowInv, Issuing
<1>6. \A t \in Tickets : TicketInv(t)'
  BY <1>4, UnbindEffect, Constants DEF IInv, TicketInv
<1>7. \A s \in conf.snap : s.id = c => SnapInv(s)'
  BY <1>1 DEF IInv, SnapInv, Issuing
<1>8. Busy(c)
  BY <1>1 DEF Busy, InFlight
<1> QED
  BY <1>2, <1>4, <1>5, <1>6, <1>7, <1>8, RouteFrame

(* Deleting the row takes nothing with it that was paid or can be.         *)
LEMMA InvDeleteRow ==
    ASSUME Environmental, TypeOK, IInv, NEW c \in Claims, DeleteRow(c)
    PROVE  IInv'
<1> USE DEF DeleteRow
<1>1. pc[c] = "unwinding" /\ pc'[c] = "ended"
  BY DEF TypeOK
<1>2. \A d \in Claims \ {c} : SameClaim(d)
  BY UnbindEffect DEF TypeOK, SameClaim
<1>3. RequestInv(c) /\ RowInv(c)
  BY DEF IInv
<1>4. /\ row[c].status # "CONFIRMED" /\ landed[c] = 0
      /\ row'[c] = NoRow
  BY <1>1, <1>3 DEF RequestInv, TypeOK
<1>5. /\ row'[c].status = "absent" /\ row'[c].createdAt = 0
      /\ row'[c].lvbh = None /\ row'[c].amount = 0 /\ row'[c].sig = NoClaim
  BY <1>4 DEF NoRow
<1>6. RequestInv(c)'
  BY <1>1, <1>4, <1>5 DEF RequestInv, Issuing
<1>7. RowInv(c)'
  BY <1>1, <1>4, <1>5, UnbindEffect, Fields DEF RowInv
<1>8. \A t \in Tickets : TicketInv(t)'
  <2> TAKE t \in Tickets
  <2>1. TicketInv(t) /\ ticket[t].claim \in Claims \cup {NoClaim}
    BY Fields DEF IInv
  <2>2. CASE ticket[t].claim = c
    BY <1>4, <2>1, <2>2, UnbindEffect DEF TicketInv
  <2>3. CASE ticket[t].claim = NoClaim
    BY <2>1, <2>3, UnbindEffect, Constants DEF TicketInv
  <2>4. CASE ticket[t].claim \in Claims \ {c}
    BY <1>2, <2>1, <2>4, UnbindEffect DEF TicketInv, SameClaim
  <2> QED
    BY <2>1, <2>2, <2>3, <2>4
<1>9. \A s \in conf.snap : s.id = c => SnapInv(s)'
  BY <1>1, <1>5 DEF IInv, SnapInv, Issuing
<1>10. Busy(c)
  BY <1>1 DEF Busy, InFlight
<1> QED
  BY <1>2, <1>5, <1>6, <1>7, <1>8, <1>9, <1>10, RouteFrame

(* A request that throws leaves its row and tickets to the grace period.   *)
LEMMA InvRequestFails ==
    ASSUME Environmental, TypeOK, IInv, NEW c \in Claims, RequestFails(c)
    PROVE  IInv'
<1> USE DEF RequestFails
<1>1. pc[c] \in InFlight /\ pc'[c] = "ended"
  BY DEF TypeOK
<1>2. \A d \in Claims \ {c} : SameClaim(d)
  BY DEF TypeOK, SameClaim, Bound
<1>3. RequestInv(c) /\ RowInv(c)
  BY DEF IInv
<1>4. Bound(c)' = Bound(c)
  BY DEF Bound
<1>5. row[c].status # "CONFIRMED" /\ landed[c] = 0
  BY <1>1, <1>3 DEF RequestInv, InFlight
<1>6. RequestInv(c)' /\ RowInv(c)'
  BY <1>1, <1>3, <1>4, <1>5 DEF RequestInv, RowInv, Issuing, InFlight
<1>7. \A t \in Tickets : TicketInv(t)'
  BY DEF IInv, TicketInv
<1>8. \A s \in conf.snap : s.id = c => SnapInv(s)'
  BY <1>1 DEF IInv, SnapInv, Issuing, InFlight
<1>9. Busy(c)
  BY <1>1 DEF Busy
<1> QED
  BY <1>2, <1>5, <1>6, <1>7, <1>8, <1>9, RouteFrame

(* Every step of a request keeps the invariant.                            *)
LEMMA InvRoute ==
    ASSUME Environmental, TypeOK, IInv, NEW c \in Claims, Route(c)
    PROVE  IInv'
  BY InvCheckExisting, InvCreateRow, InvBindTickets, InvTotal, InvBuildVoucher,
     InvStampAndReturn, InvAbandonVoucher, InvDeleteRow, InvRequestFails
  DEF Route, Handler

-----------------------------------------------------------------------------
(* A step of the confirmer that only moves its own tick along.             *)
LEMMA TickFrame ==
    ASSUME IInv, UNCHANGED <<now, ticket, row, pc, voucher, landed>>,
           \A s \in conf.snap' : SnapInv(s)', TickInv'
    PROVE  IInv'
<1>1. \A c \in Claims : SameClaim(c)
  BY DEF SameClaim, Bound
<1>2. \A c \in Claims : RequestInv(c)' /\ RowInv(c)'
  BY <1>1, ClaimFrame DEF IInv
<1>3. (\A t \in Tickets : TicketInv(t)') /\ SerialInv'
  BY DEF IInv, TicketInv, SerialInv, Busy
<1> QED
  BY <1>2, <1>3 DEF IInv

(* A tick that ends holds nothing that could go stale.                     *)
LEMMA TickEnds ==
    ASSUME conf' = IdleConfirmer
    PROVE  (\A s \in conf.snap' : SnapInv(s)') /\ TickInv'
  BY DEF IdleConfirmer, TickInv

(* A read of the pending rows: a row without a stamp is a row whose        *)
(* request is young or gone.                                               *)
LEMMA InvReadPending ==
    ASSUME Environmental, TypeOK, IInv, ReadPending
    PROVE  IInv'
<1> USE DEF ReadPending
<1>1. CASE Pending = {}
  <2>1. conf' = conf
    BY <1>1
  <2>2. (\A s \in conf.snap' : SnapInv(s)') /\ TickInv'
    BY <2>1 DEF IInv, SnapInv, TickInv, Landed
  <2> QED
    BY <2>2, TickFrame
<1>2. CASE Pending # {}
  <2>1. /\ conf.pc' = "sweeping" /\ conf.start' = now /\ conf.snap' = Snapshot
        /\ conf.seen' = {}
    BY <1>2 DEF IdleConfirmer
  <2>2. \A s \in Snapshot : SnapInv(s)'
    <3> SUFFICES ASSUME NEW c \in Pending, NEW s,
                        s = [id |-> c, createdAt |-> row[c].createdAt,
                             seq |-> row[c].seq, lvbh |-> row[c].lvbh,
                             amount |-> row[c].amount]
                 PROVE  SnapInv(s)'
      BY DEF Snapshot
    <3>1. c \in Claims /\ row[c].status = "PENDING"
      BY DEF Pending
    <3>2. /\ s.id = c /\ s.createdAt = row[c].createdAt
          /\ s.lvbh = row[c].lvbh /\ s.amount = row[c].amount
      OBVIOUS
    <3>3. RequestInv(c)
      BY <3>1 DEF IInv
    <3> QED
      BY <2>1, <3>1, <3>2, <3>3 DEF SnapInv, RequestInv, Issuing
  <2>3. TickInv'
    <3>1. \A s, r \in Snapshot : s.id = r.id => s = r
      BY DEF Snapshot
    <3> QED
      BY <2>1, <3>1, Fields, Constants DEF TickInv
  <2> QED
    BY <2>1, <2>2, <2>3, TickFrame
<1> QED
  BY <1>1, <1>2

(* A complete sweep shows every landing older than the RPC lag.            *)
LEMMA InvSweepComplete ==
    ASSUME Environmental, TypeOK, IInv, SweepComplete
    PROVE  IInv'
<1>1. PICK seen \in SUBSET Landed :
        /\ {c \in Landed : landed[c] + RpcLag <= now} \subseteq seen
        /\ conf' = [conf EXCEPT !.pc = "swept", !.complete = TRUE,
                                !.seen = seen, !.sweptAt = now]
  BY DEF SweepComplete
<1>2. /\ conf.pc' = "swept" /\ conf.complete' = TRUE /\ conf.seen' = seen
      /\ conf.sweptAt' = now /\ conf.snap' = conf.snap /\ conf.start' = conf.start
  BY <1>1 DEF TypeOK, Ticks
<1>3. UNCHANGED <<now, ticket, row, pc, voucher, landed>> /\ conf.pc = "sweeping"
  BY DEF SweepComplete
<1>4. \A s \in conf.snap' : SnapInv(s)'
  BY <1>2, <1>3 DEF IInv, SnapInv
<1>5. TickInv'
  BY <1>1, <1>2, <1>3, Fields, Constants DEF IInv, TickInv, Landed
<1> QED
  BY <1>3, <1>4, <1>5, TickFrame

(* A truncated sweep shows some landings.                                  *)
LEMMA InvSweepTruncated ==
    ASSUME Environmental, TypeOK, IInv, SweepTruncated
    PROVE  IInv'
<1>1. PICK seen \in SUBSET Landed :
        conf' = [conf EXCEPT !.pc = "swept", !.complete = FALSE,
                             !.seen = seen, !.sweptAt = now]
  BY DEF SweepTruncated
<1>2. /\ conf.pc' = "swept" /\ conf.complete' = FALSE /\ conf.seen' = seen
      /\ conf.sweptAt' = now /\ conf.snap' = conf.snap /\ conf.start' = conf.start
  BY <1>1 DEF TypeOK, Ticks
<1>3. UNCHANGED <<now, ticket, row, pc, voucher, landed>> /\ conf.pc = "sweeping"
  BY DEF SweepTruncated
<1>4. \A s \in conf.snap' : SnapInv(s)'
  BY <1>2, <1>3 DEF IInv, SnapInv
<1>5. TickInv'
  BY <1>1, <1>2, <1>3, Fields, Constants DEF IInv, TickInv, Landed
<1> QED
  BY <1>3, <1>4, <1>5, TickFrame

(* The signatures already attributed are those of the confirmed rows, and  *)
(* no row of the snapshot is one of them.                                  *)
LEMMA InvReadHeight ==
    ASSUME Environmental, TypeOK, IInv, ReadHeight
    PROVE  IInv'
<1> DEFINE used == {row[c].sig : c \in Claims} \ {NoClaim}
<1>1. /\ conf.pc' = "resolving" /\ conf.height' = now /\ conf.used' = used
      /\ conf.complete' = conf.complete /\ conf.seen' = conf.seen
      /\ conf.sweptAt' = conf.sweptAt /\ conf.snap' = conf.snap
      /\ conf.start' = conf.start
  BY DEF TypeOK, Ticks, ReadHeight
<1>2. UNCHANGED <<now, ticket, row, pc, voucher, landed>> /\ conf.pc = "swept"
  BY DEF ReadHeight
<1>3. \A s \in conf.snap' : SnapInv(s)'
  BY <1>1, <1>2 DEF IInv, SnapInv
<1>4. \A c \in Claims : row[c].status = "CONFIRMED" <=> c \in used
  BY Constants DEF IInv, RowInv
<1>5. \A s \in conf.snap : s.id \notin used
  BY <1>4, Fields DEF IInv, SnapInv
<1> HIDE DEF used
<1>6. TickInv'
  BY <1>1, <1>2, <1>4, <1>5, Fields, Constants DEF IInv, TickInv, Landed
<1> QED
  BY <1>2, <1>3, <1>6, TickFrame

(* The rest of the tick after snapshot row s, with only its own claim      *)
(* consumed: the other rows are as they were read.                         *)
LEMMA AdvanceEffect ==
    ASSUME TypeOK, IInv, NEW s \in conf.snap, conf.pc = "resolving",
           NEW x \in SUBSET {s.id}, Advance(s, x),
           now' = now, landed' = landed, pc' = pc, voucher' = voucher,
           \A c \in Claims \ {s.id} : row'[c] = row[c],
           row'[s.id].status = "CONFIRMED" => row[s.id].status = "CONFIRMED" \/ s.id \in x
    PROVE  (\A r \in conf.snap' : SnapInv(r)') /\ TickInv'
<1>1. CASE conf.snap = {s}
  BY <1>1, TickEnds DEF Advance
<1>2. CASE conf.snap # {s}
  <2>1. /\ conf.pc' = conf.pc /\ conf.used' = conf.used \cup x
        /\ conf.snap' = conf.snap \ {s} /\ conf.seen' = conf.seen
        /\ conf.complete' = conf.complete /\ conf.height' = conf.height
        /\ conf.sweptAt' = conf.sweptAt /\ conf.start' = conf.start
    BY <1>2 DEF Advance, TypeOK, Ticks
  <2>2. \A r \in conf.snap' : r \in conf.snap /\ r.id # s.id /\ r.id \in Claims
    BY <2>1, Fields DEF IInv, TickInv
  <2>3. \A r \in conf.snap' : SnapInv(r)'
    <3> TAKE r \in conf.snap'
    <3>1. SnapInv(r) /\ row'[r.id] = row[r.id]
      BY <2>2 DEF IInv
    <3> QED
      BY <2>1, <3>1 DEF SnapInv
  <2>4. \A c \in Claims : row'[c].status = "CONFIRMED" => c \in conf.used'
    BY <2>1 DEF IInv, TickInv
  <2>5. \A r \in conf.snap' : r.id \notin conf.used'
    BY <2>1, <2>2 DEF IInv, TickInv
  <2>6. TickInv'
    BY <2>1, <2>2, <2>4, <2>5, Fields, Constants DEF IInv, TickInv, Landed
  <2> QED
    BY <2>3, <2>6
<1> QED
  BY <1>1, <1>2

(* A landed payout is attributed to the row it was issued for: a wallet    *)
(* with serial requests has no other live row of the same amount.          *)
LEMMA MatchIsOwn ==
    ASSUME Environmental, TypeOK, IInv, NEW s \in conf.snap,
           conf.pc = "resolving", NEW x \in Candidates(s)
    PROVE  /\ x = s.id
           /\ pc[s.id] = "issued" /\ row[s.id].status = "PENDING"
           /\ landed[s.id] # 0
<1>1. /\ x \in conf.seen /\ Requester[x] = Requester[s.id] /\ x \notin conf.used
      /\ voucher[x].amount = s.amount
  BY DEF Candidates
<1>2. x \in Claims /\ landed[x] # 0 /\ s.id \in Claims
  BY <1>1, Fields DEF IInv, TickInv, Landed
<1>3. RequestInv(x) /\ RowInv(x) /\ RequestInv(s.id) /\ RowInv(s.id) /\ SnapInv(s)
  BY <1>2 DEF IInv
<1>4. pc[x] = "issued" /\ voucher[x].amount # 0 /\ row[x].lvbh # None
  BY <1>2, <1>3 DEF RequestInv
<1>5. row[x].status = "PENDING"
  <2>1. row[x].status # "CONFIRMED"
    BY <1>1, <1>2 DEF IInv, TickInv
  <2> QED
    BY <1>2, <1>3, <1>4, <2>1, Fields DEF RequestInv, RowInv
<1>6. pc[s.id] = "issued" /\ row[s.id].lvbh # None /\ row[s.id].status = "PENDING"
  BY <1>1, <1>3, <1>4 DEF SnapInv, RequestInv
<1>7. Busy(x) /\ Busy(s.id)
  BY <1>4, <1>5, <1>6 DEF Busy
<1> QED
  BY <1>1, <1>2, <1>6, <1>7 DEF IInv, SerialInv

(* What the confirmer releases has not landed, cannot land any more, and   *)
(* is no longer being issued: the two grace periods cover the environment. *)
LEMMA ReleaseIsSafe ==
    ASSUME Environmental, TypeOK, IInv, NEW s \in conf.snap,
           conf.pc = "resolving", Candidates(s) = {},
           GraceOver(s) \/ ExpiryPassed(s)
    PROVE  /\ landed[s.id] = 0
           /\ pc[s.id] \notin Issuing
           /\ pc[s.id] = "issued" => now > voucher[s.id].lvbh
<1>1. s.id \in Claims /\ s.createdAt \in Nat /\ s.lvbh \in Nat
  BY Fields
<1>2. RequestInv(s.id) /\ RowInv(s.id) /\ SnapInv(s) /\ TickInv
  BY <1>1 DEF IInv
<1>3. CASE GraceOver(s)
  <2>1. pc[s.id] \notin Issuing \cup {"issued"}
    <3> SUFFICES ASSUME pc[s.id] \in Issuing \cup {"issued"}
                 PROVE  FALSE
      OBVIOUS
    <3>1. row[s.id].status = "PENDING"
      BY <1>2 DEF RequestInv, SnapInv
    <3>2. conf.start <= s.createdAt + RouteBudget
      BY <1>2, <1>3, <3>1 DEF SnapInv, GraceOver
    <3>3. now <= conf.start + TickBudget
      BY <1>2 DEF TickInv
    <3>4. now > s.createdAt + UnsignedGrace
      BY <1>3 DEF GraceOver
    <3> QED
      BY <1>1, <3>2, <3>3, <3>4, Fields, Constants DEF Environmental, TimingMargins
  <2> QED
    BY <1>2, <2>1 DEF RequestInv, Issuing
<1>4. CASE ExpiryPassed(s)
  <2>1. /\ pc[s.id] = "issued" /\ s.lvbh = voucher[s.id].lvbh
        /\ s.amount = voucher[s.id].amount
        /\ row[s.id].status = "PENDING" /\ s.createdAt = row[s.id].createdAt
    BY <1>2, <1>4 DEF ExpiryPassed, SnapInv, RequestInv
  <2>2. conf.sweptAt > s.lvbh + RpcLag
    <3>1. conf.height > s.lvbh + ExpiryBuffer
      BY <1>4 DEF ExpiryPassed
    <3>2. conf.height <= conf.sweptAt + SweepBudget
      BY <1>2 DEF TickInv
    <3> QED
      BY <1>1, <3>1, <3>2, Fields, Constants DEF Environmental, TimingMargins
  <2>3. now > voucher[s.id].lvbh
    BY <1>1, <1>2, <2>1, <2>2, Fields, Constants DEF TickInv
  <2>4. landed[s.id] = 0
    <3> SUFFICES ASSUME landed[s.id] # 0
                 PROVE  FALSE
      OBVIOUS
    <3>1. /\ landed[s.id] \in Nat
          /\ landed[s.id] <= s.lvbh /\ landed[s.id] >= s.createdAt
      BY <1>1, <1>2, <2>1, Fields DEF RowInv
    <3>2. landed[s.id] + RpcLag < conf.sweptAt
      BY <1>1, <2>2, <3>1, Fields, Constants
    <3>3. s.id \in conf.seen /\ s.id \notin conf.used
      BY <1>1, <1>2, <1>4, <3>2 DEF TickInv, ExpiryPassed, Landed
    <3>4. landed[s.id] + ClockSkew >= s.createdAt
      BY <1>1, <3>1, Constants
    <3>5. s.id \in Candidates(s)
      BY <2>1, <3>3, <3>4 DEF Candidates
    <3> QED
      BY <3>5
  <2> QED
    BY <2>1, <2>3, <2>4 DEF Issuing
<1> QED
  BY <1>3, <1>4

(* Confirming a row pays exactly the tickets its landed voucher covered.   *)
LEMMA InvConfirmRow ==
    ASSUME Environmental, TypeOK, IInv, NEW s \in conf.snap,
           NEW x \in conf.seen, ConfirmRow(s, x)
    PROVE  IInv'
<1>1. /\ conf.pc = "resolving" /\ x \in Candidates(s) /\ Advance(s, {x})
      /\ UNCHANGED <<now, pc, voucher, landed>>
  BY DEF ConfirmRow, NextRow, Oldest
<1>2. /\ x = s.id /\ s.id \in Claims
      /\ pc[s.id] = "issued" /\ row[s.id].status = "PENDING"
      /\ landed[s.id] # 0
  BY <1>1, MatchIsOwn, Fields
<1>3. /\ \A c \in Claims \ {s.id} : row'[c] = row[c]
      /\ row'[s.id].status = "CONFIRMED" /\ row'[s.id].sig = s.id
      /\ row'[s.id].lvbh = row[s.id].lvbh /\ row'[s.id].amount = row[s.id].amount
      /\ row'[s.id].createdAt = row[s.id].createdAt
  <2>1. row[s.id] \in ClaimRows /\ row \in [Claims -> ClaimRows]
    BY <1>2 DEF TypeOK
  <2> QED
    BY <1>2, <2>1 DEF ConfirmRow, ClaimRows
<1>4. \A t \in Tickets :
        /\ ticket'[t].claim = ticket[t].claim
        /\ ticket[t].claim # s.id => ticket'[t] = ticket[t]
        /\ ticket[t].claim = s.id => /\ ticket'[t].win # "CLAIMED_ON_BASE"
                                     /\ ticket'[t].win = "WON" => ticket[t].win = "WON"
  <2>1. \A t \in Tickets : ticket[t] \in TicketRows
    BY DEF TypeOK
  <2>2. \A t \in Tickets :
          ticket'[t] = IF ticket[t].claim = s.id /\ ticket[t].win = "CLAIMED_ON_BASE"
                       THEN [ticket[t] EXCEPT !.win = "PAID_OUT_ON_SOLANA"]
                       ELSE ticket[t]
    BY DEF ConfirmRow, Bound
  <2> QED
    BY <2>1, <2>2 DEF TicketRows
<1>5. \A c : Bound(c)' = Bound(c)
  BY <1>4 DEF Bound
<1>6. \A c \in Claims : RequestInv(c)' /\ RowInv(c)'
  <2> TAKE c \in Claims
  <2>1. RequestInv(c) /\ RowInv(c)
    BY DEF IInv
  <2>2. CASE c # s.id
    <3>1. SameClaim(c)
      BY <1>1, <1>3, <1>5, <2>2 DEF SameClaim
    <3> QED
      BY <2>1, <3>1, ClaimFrame
  <2>3. CASE c = s.id
    <3>1. RequestInv(c)'
      BY <1>1, <1>2, <1>3, <1>5, <2>1, <2>3 DEF RequestInv, Issuing
    <3>2. RowInv(c)'
      BY <1>1, <1>2, <1>3, <1>5, <2>1, <2>3 DEF RowInv
    <3> QED
      BY <3>1, <3>2
  <2> QED
    BY <2>2, <2>3
<1>7. \A t \in Tickets : TicketInv(t)'
  <2> TAKE t \in Tickets
  <2>1. TicketInv(t) /\ ticket[t].claim \in Claims \cup {NoClaim}
    BY Fields DEF IInv
  <2>2. CASE ticket[t].claim = s.id
    BY <1>2, <1>3, <1>4, <2>1, <2>2, Constants DEF TicketInv
  <2>3. CASE ticket[t].claim # s.id
    BY <1>3, <1>4, <2>1, <2>3 DEF TicketInv
  <2> QED
    BY <2>2, <2>3
<1>8. \A c \in Claims : Busy(c)' => Busy(c)
  BY <1>1, <1>2, <1>3 DEF Busy
<1>9. SerialInv'
  BY <1>8 DEF IInv, SerialInv
<1>10. (\A r \in conf.snap' : SnapInv(r)') /\ TickInv'
  BY <1>1, <1>2, <1>3, AdvanceEffect
<1> QED
  BY <1>1, <1>6, <1>7, <1>9, <1>10 DEF IInv

(* Releasing a row frees tickets that no transaction can pay any more.     *)
LEMMA InvReleaseRow ==
    ASSUME Environmental, TypeOK, IInv, NEW s \in conf.snap,
           conf.pc = "resolving", Candidates(s) = {},
           GraceOver(s) \/ ExpiryPassed(s), ReleaseRow(s)
    PROVE  IInv'
<1>1. s.id \in Claims /\ Advance(s, {}) /\ UNCHANGED <<now, pc, voucher, landed>>
  BY Fields DEF ReleaseRow
<1>2. CASE row[s.id].status = "absent"
  <2>1. row' = row /\ ticket' = ticket
    BY <1>2 DEF ReleaseRow
  <2>2. (\A r \in conf.snap' : SnapInv(r)') /\ TickInv'
    BY <1>1, <2>1, AdvanceEffect
  <2> QED
    BY <1>1, <2>1, <2>2, TickFrame
<1>3. CASE row[s.id].status # "absent"
  <2>1. row[s.id].status = "PENDING" /\ pc[s.id] \notin {"idle", "checked"}
    BY <1>3 DEF IInv, SnapInv
  <2>2. /\ \A c \in Claims \ {s.id} : row'[c] = row[c]
        /\ row'[s.id].status = "EXPIRED" /\ row'[s.id].sig = row[s.id].sig
        /\ row'[s.id].lvbh = row[s.id].lvbh /\ row'[s.id].amount = row[s.id].amount
        /\ row'[s.id].createdAt = row[s.id].createdAt
    <3>1. row[s.id] \in ClaimRows /\ row \in [Claims -> ClaimRows]
      BY <1>1 DEF TypeOK
    <3> QED
      BY <1>1, <1>3, <3>1 DEF ReleaseRow, ClaimRows
  <2>3. ticket' = Unbind(s.id)
    BY <1>3 DEF ReleaseRow
  <2>4. \A c \in Claims : RequestInv(c)' /\ RowInv(c)'
    <3> TAKE c \in Claims
    <3>1. RequestInv(c) /\ RowInv(c)
      BY DEF IInv
    <3>2. CASE c # s.id
      <4>1. SameClaim(c)
        BY <1>1, <2>2, <2>3, <3>2, UnbindEffect DEF SameClaim
      <4> QED
        BY <3>1, <4>1, ClaimFrame
    <3>3. CASE c = s.id
      <4>1. RequestInv(c)'
        BY <1>1, <2>1, <2>2, <3>1, <3>3, ReleaseIsSafe DEF RequestInv, Issuing
      <4>2. RowInv(c)'
        BY <1>1, <2>1, <2>2, <3>1, <3>3, ReleaseIsSafe DEF RowInv
      <4> QED
        BY <4>1, <4>2
    <3> QED
      BY <3>2, <3>3
  <2>5. \A t \in Tickets : TicketInv(t)'
    <3> TAKE t \in Tickets
    <3>1. TicketInv(t) /\ ticket[t].claim \in Claims \cup {NoClaim}
      BY Fields DEF IInv
    <3>2. CASE ticket[t].claim = s.id
      BY <1>1, <2>1, <2>3, <3>1, <3>2, UnbindEffect DEF TicketInv
    <3>3. CASE ticket[t].claim # s.id
      BY <1>1, <2>2, <2>3, <3>1, <3>3, UnbindEffect DEF TicketInv
    <3> QED
      BY <3>2, <3>3
  <2>6. \A c \in Claims : Busy(c)' => Busy(c)
    BY <1>1, <2>1, <2>2 DEF Busy
  <2>7. SerialInv'
    BY <2>6 DEF IInv, SerialInv
  <2>8. (\A r \in conf.snap' : SnapInv(r)') /\ TickInv'
    BY <1>1, <2>2, AdvanceEffect
  <2> QED
    BY <1>1, <2>4, <2>5, <2>7, <2>8 DEF IInv
<1> QED
  BY <1>2, <1>3

(* A row that must wait, or whose database transaction rolled back, is     *)
(* left as it was for the next tick.                                       *)
LEMMA InvLeftForLater ==
    ASSUME Environmental, TypeOK, IInv, NEW s \in conf.snap,
           KeepWaiting(s) \/ ResolveFailed(s)
    PROVE  IInv'
<1>1. conf.pc = "resolving" /\ UNCHANGED <<now, ticket, row, pc, voucher, landed>>
  BY DEF KeepWaiting, ResolveFailed, NextRow
<1>2. PICK x \in SUBSET {s.id} : Advance(s, x)
  <2>1. CASE Advance(s, {})
    BY <2>1
  <2>2. ASSUME NEW x \in Candidates(s), Advance(s, {x})
        PROVE  \E y \in SUBSET {s.id} : Advance(s, y)
    BY <1>1, <2>2, MatchIsOwn
  <2> QED
    BY <2>1, <2>2 DEF KeepWaiting, ResolveFailed
<1>3. (\A r \in conf.snap' : SnapInv(r)') /\ TickInv'
  BY <1>1, <1>2, AdvanceEffect
<1> QED
  BY <1>1, <1>3, TickFrame

(* Every step of the confirmer keeps the invariant.                        *)
LEMMA InvConfirmer ==
    ASSUME Environmental, TypeOK, IInv, Confirmer
    PROVE  IInv'
<1>1. ASSUME NEW s \in conf.snap, Resolve(s) \/ ResolveFailed(s)
      PROVE  IInv'
  <2>1. ASSUME ReleaseUnsigned(s) \/ ExpireRow(s)
        PROVE  IInv'
    BY <2>1, InvReleaseRow DEF ReleaseUnsigned, ExpireRow, NextRow
  <2> QED
    BY <1>1, <2>1, InvConfirmRow, InvLeftForLater DEF Resolve
<1>2. CASE SweepFailed
  <2>1. UNCHANGED <<now, ticket, row, pc, voucher, landed>> /\ conf' = IdleConfirmer
    BY <1>2 DEF SweepFailed
  <2> QED
    BY <2>1, TickEnds, TickFrame
<1> QED
  BY <1>1, <1>2, InvReadPending, InvSweepComplete, InvSweepTruncated, InvReadHeight
  DEF Confirmer, Settle

(* The invariant is inductive under the environment's bounds.              *)
LEMMA InvStep == Environmental /\ TypeOK /\ IInv /\ [Next]_vars => IInv'
<1> SUFFICES ASSUME Environmental, TypeOK, IInv, [Next]_vars
             PROVE  IInv'
  OBVIOUS
<1>1. CASE Environment
  BY <1>1, InvTick, InvCrash, InvHarvested, InvLand DEF Environment
<1>2. CASE UNCHANGED vars
  <2>1. UNCHANGED <<now, ticket, row, pc, voucher, landed>> /\ conf' = conf
    BY <1>2 DEF vars
  <2>2. (\A s \in conf.snap' : SnapInv(s)') /\ TickInv'
    BY <2>1 DEF IInv, SnapInv, TickInv, Landed
  <2> QED
    BY <2>1, <2>2, TickFrame
<1> QED
  BY <1>1, <1>2, InvConfirmer, InvRoute DEF Next

(* With serial requests and timely awaits, the invariant always holds.     *)
THEOREM InductiveInvariant == Environmental => (Spec => [](TypeOK /\ IInv))
<1> SUFFICES ASSUME Environmental
             PROVE  Spec => [](TypeOK /\ IInv)
  OBVIOUS
<1>1. Init => TypeOK /\ IInv
  BY TypeInit, InvInit
<1>2. (TypeOK /\ IInv) /\ [Next]_vars => (TypeOK /\ IInv)'
  BY TypeStep, InvStep
<1> QED
  BY <1>1, <1>2, PTL DEF Spec

-----------------------------------------------------------------------------
(* Two landed vouchers cover disjoint sets of tickets, because a ticket    *)
(* hangs on one row and an expired row cannot have landed.                 *)
LEMMA InvNoTicketPaidTwice == TypeOK /\ IInv => NoTicketPaidTwice
<1> SUFFICES ASSUME TypeOK, IInv, NEW c \in Landed, NEW d \in Landed, c # d
             PROVE  voucher[c].covers \cap voucher[d].covers = {}
  BY DEF NoTicketPaidTwice
<1>1. \A e \in Landed : voucher[e].covers = Bound(e)
  <2> TAKE e \in Landed
  <2>1. e \in Claims /\ landed[e] # 0 /\ RequestInv(e) /\ RowInv(e)
    BY DEF IInv, Landed
  <2> QED
    BY <2>1 DEF RequestInv, RowInv
<1> QED
  BY <1>1 DEF Bound

(* No two transactions that moved money were issued for the same ticket,   *)
(* for any number of tickets, wallets and requests.                        *)
THEOREM PaidAtMostOnce == Environmental => (Spec => []NoTicketPaidTwice)
<1> QED
  BY InductiveInvariant, InvNoTicketPaidTwice, PTL

(* An expired row has not landed, and a ticket is shown as paid only when  *)
(* its transaction landed.                                                 *)
LEMMA InvSettlement ==
    TypeOK /\ IInv => ExpiredNeverLands /\ PaidTicketsWerePaid /\ NoStrandedTicket
<1> SUFFICES ASSUME TypeOK, IInv
             PROVE  ExpiredNeverLands /\ PaidTicketsWerePaid /\ NoStrandedTicket
  OBVIOUS
<1>1. ExpiredNeverLands
  BY DEF ExpiredNeverLands, IInv, RowInv
<1>2. PaidTicketsWerePaid
  <2> SUFFICES ASSUME NEW t \in Tickets, ticket[t].win = "PAID_OUT_ON_SOLANA"
               PROVE  \E c \in Landed : t \in voucher[c].covers
    BY DEF PaidTicketsWerePaid
  <2> DEFINE c == ticket[t].claim
  <2>1. c \in Claims /\ row[c].status = "CONFIRMED"
    BY Fields DEF IInv, TicketInv
  <2>2. RequestInv(c) /\ RowInv(c)
    BY <2>1 DEF IInv
  <2>3. c \in Landed /\ voucher[c].covers = Bound(c)
    BY <2>1, <2>2 DEF RequestInv, RowInv, Landed
  <2> QED
    BY <2>3 DEF Bound
<1>3. NoStrandedTicket
  BY DEF NoStrandedTicket, IInv, TicketInv
<1> QED
  BY <1>1, <1>2, <1>3

(* payoutConfirmer.ts 22-34: the confirmer never expires a voucher that    *)
(* has paid or can still pay.                                              *)
THEOREM ExpiredRowsNeverLand == Environmental => (Spec => []ExpiredNeverLands)
<1> QED
  BY InductiveInvariant, InvSettlement, PTL

(* confirmClaim: a ticket shown as paid out was covered by a transaction   *)
(* that landed.                                                            *)
THEOREM PaidWasPaid == Environmental => (Spec => []PaidTicketsWerePaid)
<1> QED
  BY InductiveInvariant, InvSettlement, PTL

(* claims.ts and releaseClaim: no harvested ticket is left on a row that   *)
(* is settled or gone, where nothing would release it.                     *)
THEOREM NothingStranded == Environmental => (Spec => []NoStrandedTicket)
<1> QED
  BY InductiveInvariant, InvSettlement, PTL

-----------------------------------------------------------------------------
(* A row's tickets belong to the wallet that asked for it, and a voucher   *)
(* is worth the tickets it covers.                                         *)
Priced == {"totalled", "built", "issued"}
BoundToBuyer ==
    \A t \in Tickets :
        ticket[t].claim # NoClaim => Buyer[t] = Requester[ticket[t].claim]
PricedByCovers ==
    \A c \in Claims : pc[c] \in Priced => voucher[c].amount = PrizeSum(voucher[c].covers)

(* A step leaves a ticket's row alone, releases the ticket, or binds it to *)
(* a row of its buyer.                                                     *)
LEMMA ClaimMoves ==
    ASSUME TypeOK, [Next]_vars, NEW t \in Tickets
    PROVE  \/ ticket'[t].claim \in {ticket[t].claim, NoClaim}
           \/ ticket'[t].claim \in Claims /\ Buyer[t] = Requester[ticket'[t].claim]
<1> DEFINE Goal == \/ ticket'[t].claim \in {ticket[t].claim, NoClaim}
                   \/ /\ ticket'[t].claim \in Claims
                      /\ Buyer[t] = Requester[ticket'[t].claim]
<1>1. ASSUME NEW c \in Claims, ticket' = Unbind(c)
      PROVE  Goal
  BY <1>1, UnbindEffect
<1>2. CASE ticket' = ticket
  BY <1>2
<1>3. ticket[t] \in TicketRows
  BY DEF TypeOK
<1>4. ASSUME NEW u \in Tickets, Harvested(u)
      PROVE  Goal
  BY <1>3, <1>4 DEF Harvested, TypeOK, TicketRows
<1>5. ASSUME NEW s \in conf.snap, NEW x \in conf.seen, ConfirmRow(s, x)
      PROVE  Goal
  BY <1>3, <1>5 DEF ConfirmRow, TicketRows
<1>6. ASSUME NEW c \in Claims, BindTickets(c)
      PROVE  Goal
  BY <1>3, <1>6 DEF BindTickets, Bindable, TicketRows
<1>7. ASSUME NEW s \in conf.snap, ReleaseRow(s)
      PROVE  Goal
  <2>1. s.id \in Claims
    BY Fields
  <2> QED
    BY <1>1, <1>2, <1>7, <2>1 DEF ReleaseRow
<1>8. ASSUME NEW c \in Claims, Route(c)
      PROVE  Goal
  <2>1. ticket' = ticket \/ ticket' = Unbind(c) \/ BindTickets(c)
    BY <1>8 DEF Route, CheckExisting, Handler, CreateRow, Total, BuildVoucher,
                StampAndReturn, AbandonVoucher, DeleteRow, RequestFails
  <2> QED
    BY <1>1, <1>2, <1>6, <2>1
<1>9. CASE Environment
  BY <1>2, <1>4, <1>9 DEF Environment, Tick, Crash, Land
<1>10. CASE Confirmer
  <2>1. ASSUME NEW s \in conf.snap, Resolve(s) \/ ResolveFailed(s)
        PROVE  Goal
    BY <1>2, <1>5, <1>7, <2>1
    DEF Resolve, ReleaseUnsigned, ExpireRow, KeepWaiting, ResolveFailed
  <2>2. ASSUME ReadPending \/ SweepComplete \/ ReadHeight \/ SweepTruncated \/ SweepFailed
        PROVE  Goal
    BY <1>2, <2>2 DEF ReadPending, SweepComplete, SweepTruncated, SweepFailed, ReadHeight
  <2> QED
    BY <1>10, <2>1, <2>2 DEF Confirmer, Settle
<1>11. CASE UNCHANGED vars
  BY <1>2, <1>11 DEF vars
<1> QED
  BY <1>8, <1>9, <1>10, <1>11 DEF Next

(* A step that touches a request's voucher empties it, prices it, or       *)
(* stamps it; every other step leaves voucher and stage alone.             *)
LEMMA VoucherMoves ==
    ASSUME TypeOK, [Next]_vars, NEW c \in Claims
    PROVE  \/ voucher'[c] = voucher[c] /\ (pc'[c] \in Priced => pc[c] \in Priced)
           \/ pc[c] \in InFlight /\ pc'[c] \notin Priced
           \/ Total(c)
           \/ BuildVoucher(c)
<1> DEFINE Same == voucher'[c] = voucher[c] /\ (pc'[c] \in Priced => pc[c] \in Priced)
           Gone == pc[c] \in InFlight /\ pc'[c] \notin Priced
           Goal == Same \/ Gone \/ Total(c) \/ BuildVoucher(c)
<1>1. pc \in [Claims -> Stages] /\ voucher \in [Claims -> Vouchers]
  BY DEF TypeOK
<1>2. CASE pc' = pc /\ voucher' = voucher
  BY <1>2
<1>3. CASE Crash
  BY <1>1, <1>3 DEF Crash, Priced, InFlight
<1>4. ASSUME NEW d \in Claims, Route(d)
      PROVE  Goal
  <2>1. CASE CheckExisting(d)
    BY <1>1, <2>1 DEF CheckExisting, Priced
  <2>2. CASE CreateRow(d)
    BY <1>1, <2>2 DEF CreateRow, Priced
  <2>3. CASE BindTickets(d)
    BY <1>1, <2>3 DEF BindTickets, Priced
  <2>4. CASE Total(d) /\ c # d
    BY <1>1, <2>4 DEF Total, Priced
  <2>5. CASE BuildVoucher(d) /\ c # d
    BY <1>1, <2>5 DEF BuildVoucher, Priced
  <2>6. CASE StampAndReturn(d)
    BY <1>1, <2>6 DEF StampAndReturn, Priced
  <2>7. CASE AbandonVoucher(d)
    BY <1>1, <2>7 DEF AbandonVoucher, Priced, InFlight
  <2>8. CASE DeleteRow(d)
    BY <1>1, <2>8 DEF DeleteRow, Priced
  <2>9. CASE RequestFails(d)
    BY <1>1, <2>9 DEF RequestFails, Priced
  <2> HIDE DEF Same, Gone
  <2> QED
    BY <1>4, <2>1, <2>2, <2>3, <2>4, <2>5, <2>6, <2>7, <2>8, <2>9 DEF Route, Handler
<1>5. CASE Environment
  BY <1>2, <1>3, <1>5 DEF Environment, Tick, Harvested, Land
<1>6. CASE Confirmer
  <2>1. ASSUME NEW s \in conf.snap, Resolve(s) \/ ResolveFailed(s)
        PROVE  Goal
    BY <1>2, <2>1
    DEF Resolve, ConfirmRow, ReleaseUnsigned, ExpireRow, ReleaseRow, KeepWaiting,
        ResolveFailed
  <2>2. ASSUME ReadPending \/ SweepComplete \/ ReadHeight \/ SweepTruncated \/ SweepFailed
        PROVE  Goal
    BY <1>2, <2>2 DEF ReadPending, SweepComplete, SweepTruncated, SweepFailed, ReadHeight
  <2> QED
    BY <1>6, <2>1, <2>2 DEF Confirmer, Settle
<1>7. CASE UNCHANGED vars
  BY <1>2, <1>7 DEF vars
<1> QED
  BY <1>4, <1>5, <1>6, <1>7 DEF Next

(* Tickets stay bound to their buyer's rows.                               *)
LEMMA BoundToBuyerStep == TypeOK /\ BoundToBuyer /\ [Next]_vars => BoundToBuyer'
<1> SUFFICES ASSUME TypeOK, BoundToBuyer, [Next]_vars,
                    NEW t \in Tickets, ticket'[t].claim # NoClaim
             PROVE  Buyer[t] = Requester[ticket'[t].claim]
  BY DEF BoundToBuyer
<1> QED
  BY ClaimMoves DEF BoundToBuyer

(* A voucher stays worth what it covers.                                   *)
LEMMA PricedByCoversStep == TypeOK /\ PricedByCovers /\ [Next]_vars => PricedByCovers'
<1> SUFFICES ASSUME TypeOK, PricedByCovers, [Next]_vars,
                    NEW c \in Claims, pc'[c] \in Priced
             PROVE  voucher'[c].amount = PrizeSum(voucher'[c].covers)
  BY DEF PricedByCovers
<1>1. voucher[c] \in Vouchers /\ pc[c] \in Stages /\ voucher \in [Claims -> Vouchers]
  BY DEF TypeOK
<1>2. CASE voucher'[c] = voucher[c] /\ (pc'[c] \in Priced => pc[c] \in Priced)
  BY <1>2 DEF PricedByCovers
<1>3. CASE Total(c)
  <2>1. CASE PrizeSum(Bound(c)) = 0
    BY <1>3, <2>1 DEF Total, Priced, TypeOK
  <2>2. CASE PrizeSum(Bound(c)) # 0
    <3>1. voucher' = [voucher EXCEPT ![c].amount = PrizeSum(Bound(c)), ![c].covers = Bound(c)]
      BY <1>3, <2>2 DEF Total
    <3>2. voucher'[c].amount = PrizeSum(Bound(c)) /\ voucher'[c].covers = Bound(c)
      BY <1>1, <3>1 DEF Vouchers
    <3> QED
      BY <3>2
  <2> QED
    BY <2>1, <2>2
<1>4. CASE BuildVoucher(c)
  <2>1. pc[c] \in Priced
    BY <1>4 DEF BuildVoucher, Priced
  <2>2. voucher'[c].amount = voucher[c].amount /\ voucher'[c].covers = voucher[c].covers
    BY <1>1, <1>4 DEF BuildVoucher, Vouchers
  <2> QED
    BY <2>1, <2>2 DEF PricedByCovers
<1> QED
  BY <1>2, <1>3, <1>4, VoucherMoves

(* Both hold in every state, whatever the timing.                          *)
LEMMA MoneyInvariant == Spec => [](TypeOK /\ BoundToBuyer /\ PricedByCovers)
<1>1. Init => TypeOK /\ BoundToBuyer /\ PricedByCovers
  <2> SUFFICES ASSUME Init
               PROVE  TypeOK /\ BoundToBuyer /\ PricedByCovers
    OBVIOUS
  <2>1. BoundToBuyer
    BY DEF Init, BoundToBuyer
  <2>2. PricedByCovers
    BY DEF Init, PricedByCovers, Priced
  <2> QED
    BY <2>1, <2>2, TypeInit
<1>2. (TypeOK /\ BoundToBuyer /\ PricedByCovers) /\ [Next]_vars
        => (TypeOK /\ BoundToBuyer /\ PricedByCovers)'
  BY TypeStep, BoundToBuyerStep, PricedByCoversStep
<1> QED
  BY <1>1, <1>2, PTL DEF Spec

(* What a landed voucher covers: its row's tickets, at least one of them,  *)
(* all of the requesting wallet.                                           *)
LEMMA IssuedCovers ==
    ASSUME TypeOK, IInv, BoundToBuyer, PricedByCovers,
           NEW c \in Claims, pc[c] = "issued", row[c].status # "EXPIRED"
    PROVE  /\ voucher[c].covers = Bound(c)
           /\ voucher[c].covers # {}
           /\ \A t \in voucher[c].covers : /\ t \in Tickets
                                          /\ ticket[t].win # "WON"
                                          /\ ticket[t].claim = c
                                          /\ Buyer[t] = Requester[c]
<1>1. RequestInv(c) /\ RowInv(c)
  BY DEF IInv
<1>2. voucher[c].covers = Bound(c) /\ voucher[c].amount # 0
  BY <1>1 DEF RequestInv, RowInv
<1>3. voucher[c].amount = PrizeSum(voucher[c].covers)
  BY DEF PricedByCovers, Priced
<1>4. PrizeSum({}) = 0
  BY SumOfNone, PrizeSumIsSum
<1>5. \A t \in Bound(c) : /\ t \in Tickets
                          /\ ticket[t].win # "WON"
                          /\ ticket[t].claim = c
                          /\ Buyer[t] = Requester[c]
  BY Constants DEF Bound, IInv, TicketInv, BoundToBuyer
<1> QED
  BY <1>2, <1>3, <1>4, <1>5

(* A voucher that landed was handed out, and its row is not expired.       *)
LEMMA LandedIsIssued ==
    ASSUME TypeOK, IInv, NEW c \in Landed
    PROVE  c \in Claims /\ pc[c] = "issued" /\ row[c].status # "EXPIRED"
<1>1. c \in Claims /\ landed[c] # 0 /\ RequestInv(c) /\ RowInv(c)
  BY DEF Landed, IInv
<1> QED
  BY <1>1 DEF RequestInv, RowInv

-----------------------------------------------------------------------------
(* The ledger's two variables, as the refinement mapping reads them.       *)
Credited == {t \in Tickets : ticket[t].win # "WON"}
Payouts == [t \in Tickets |-> Cardinality({c \in Landed : t \in voucher[c].covers})]

(* Only a landing changes what landed vouchers cover.                      *)
LEMMA PayoutsKept ==
    ASSUME TypeOK, IInv, [Next]_vars, landed' = landed
    PROVE  Payouts' = Payouts
<1>1. \A c \in Landed : voucher'[c] = voucher[c]
  <2> TAKE c \in Landed
  <2>1. c \in Claims /\ pc[c] = "issued"
    BY LandedIsIssued
  <2> QED
    BY <2>1, VoucherMoves DEF InFlight, Total, BuildVoucher
<1>2. Landed' = Landed
  BY DEF Landed
<1>3. \A t \in Tickets : {c \in Landed' : t \in voucher'[c].covers}
                          = {c \in Landed : t \in voucher[c].covers}
  BY <1>1, <1>2
<1> QED
  BY <1>3 DEF Payouts

(* Only a harvest credits a ticket.                                        *)
LEMMA CreditedKept ==
    ASSUME TypeOK, [Next]_vars, ~ \E t \in Tickets : Harvested(t)
    PROVE  Credited' = Credited
<1> DEFINE Goal == \A t \in Tickets : (ticket'[t].win = "WON") = (ticket[t].win = "WON")
<1> SUFFICES Goal
  BY DEF Credited
<1>1. ASSUME NEW c \in Claims, ticket' = Unbind(c)
      PROVE  Goal
  BY <1>1, UnbindEffect
<1>2. CASE ticket' = ticket
  BY <1>2
<1>3. \A t \in Tickets : ticket[t] \in TicketRows
  BY DEF TypeOK
<1>4. ASSUME NEW s \in conf.snap, NEW x \in conf.seen, ConfirmRow(s, x)
      PROVE  Goal
  BY <1>3, <1>4 DEF ConfirmRow, TicketRows
<1>5. ASSUME NEW c \in Claims, BindTickets(c)
      PROVE  Goal
  BY <1>3, <1>5 DEF BindTickets, TicketRows
<1>6. ASSUME NEW s \in conf.snap, ReleaseRow(s)
      PROVE  Goal
  <2>1. s.id \in Claims
    BY Fields
  <2> QED
    BY <1>1, <1>2, <1>6, <2>1 DEF ReleaseRow
<1>7. ASSUME NEW c \in Claims, Route(c)
      PROVE  Goal
  <2>1. ticket' = ticket \/ ticket' = Unbind(c) \/ BindTickets(c)
    BY <1>7 DEF Route, CheckExisting, Handler, CreateRow, Total, BuildVoucher,
                StampAndReturn, AbandonVoucher, DeleteRow, RequestFails
  <2> QED
    BY <1>1, <1>2, <1>5, <2>1
<1>8. CASE Environment
  BY <1>2, <1>8 DEF Environment, Tick, Crash, Land
<1>9. CASE Confirmer
  <2>1. ASSUME NEW s \in conf.snap, Resolve(s) \/ ResolveFailed(s)
        PROVE  Goal
    BY <1>2, <1>4, <1>6, <2>1
    DEF Resolve, ReleaseUnsigned, ExpireRow, KeepWaiting, ResolveFailed
  <2>2. ASSUME ReadPending \/ SweepComplete \/ ReadHeight \/ SweepTruncated \/ SweepFailed
        PROVE  Goal
    BY <1>2, <2>2 DEF ReadPending, SweepComplete, SweepTruncated, SweepFailed, ReadHeight
  <2> QED
    BY <1>9, <2>1, <2>2 DEF Confirmer, Settle
<1>10. CASE UNCHANGED vars
  BY <1>2, <1>10 DEF vars
<1> QED
  BY <1>7, <1>8, <1>9, <1>10 DEF Next

(* Only a landing lands.                                                   *)
LEMMA LandedKept ==
    ASSUME [Next]_vars, ~ \E c \in Claims : Land(c)
    PROVE  landed' = landed
<1>1. ASSUME NEW c \in Claims, Route(c)
      PROVE  landed' = landed
  BY <1>1 DEF Route, CheckExisting, Handler, CreateRow, BindTickets, Total, BuildVoucher,
              StampAndReturn, AbandonVoucher, DeleteRow, RequestFails
<1>2. CASE Environment
  BY <1>2 DEF Environment, Tick, Crash, Harvested
<1>3. CASE Confirmer
  <2>1. ASSUME NEW s \in conf.snap, Resolve(s) \/ ResolveFailed(s)
        PROVE  landed' = landed
    BY <2>1 DEF Resolve, ConfirmRow, ReleaseUnsigned, ExpireRow, ReleaseRow,
                KeepWaiting, ResolveFailed
  <2>2. ASSUME ReadPending \/ SweepComplete \/ ReadHeight \/ SweepTruncated \/ SweepFailed
        PROVE  landed' = landed
    BY <2>2 DEF ReadPending, SweepComplete, SweepTruncated, SweepFailed, ReadHeight
  <2> QED
    BY <1>3, <2>1, <2>2 DEF Confirmer, Settle
<1> QED
  BY <1>1, <1>2, <1>3 DEF Next, vars

(* A landing is a payout of its tickets.                                   *)
LEMMA LandPays ==
    ASSUME TypeOK, IInv, BoundToBuyer, PricedByCovers, NEW c \in Claims, Land(c)
    PROVE  /\ Credited' = Credited
           /\ voucher[c].covers # {}
           /\ \A t \in voucher[c].covers : /\ t \in Credited
                                          /\ Buyer[t] = Requester[c]
                                          /\ Payouts[t] = 0
           /\ Payouts' = [t \in Tickets |-> IF t \in voucher[c].covers
                                            THEN Payouts[t] + 1 ELSE Payouts[t]]
<1> DEFINE S == voucher[c].covers
           by(t) == {d \in Landed : t \in voucher[d].covers}
<1>1. /\ pc[c] = "issued" /\ landed[c] = 0 /\ now <= voucher[c].lvbh
      /\ landed' = [landed EXCEPT ![c] = now]
      /\ UNCHANGED <<now, ticket, row, pc, voucher, conf>>
  BY DEF Land
<1>2. now \in Nat /\ now >= 1 /\ voucher[c].lvbh \in Nat /\ landed \in [Claims -> Nat]
  BY Fields DEF IInv, TypeOK
<1>3. row[c].status # "EXPIRED"
  <2>1. RowInv(c)
    BY DEF IInv
  <2> QED
    BY <1>1, <1>2, <2>1 DEF RowInv
<1>4. /\ S # {}
      /\ \A t \in S : /\ t \in Tickets /\ ticket[t].win # "WON"
                     /\ ticket[t].claim = c /\ Buyer[t] = Requester[c]
  BY <1>1, <1>3, IssuedCovers
<1>5. Landed' = Landed \cup {c} /\ c \notin Landed
  BY <1>1, <1>2 DEF Landed
<1>6. \A t \in S : by(t) = {}
  <2> SUFFICES ASSUME NEW t \in S, NEW d \in Landed, t \in voucher[d].covers
               PROVE  FALSE
    OBVIOUS
  <2>1. d \in Claims /\ pc[d] = "issued" /\ row[d].status # "EXPIRED"
    BY LandedIsIssued
  <2>2. ticket[t].claim = d
    BY <2>1, IssuedCovers
  <2> QED
    BY <1>4, <1>5, <2>2
<1>7. \A t \in Tickets : {d \in Landed' : t \in voucher'[d].covers}
                          = IF t \in S THEN {c} ELSE by(t)
  <2> TAKE t \in Tickets
  <2>1. CASE t \in S
    <3>1. by(t) = {}
      BY <1>6, <2>1
    <3> QED
      BY <1>1, <1>5, <2>1, <3>1
  <2>2. CASE t \notin S
    BY <1>1, <1>5, <2>2
  <2> QED
    BY <2>1, <2>2
<1>8. \A t \in Tickets : Payouts[t] = Cardinality(by(t))
  BY DEF Payouts
<1>9. \A t \in S : Payouts[t] = 0
  BY <1>4, <1>6, <1>8, FS_EmptySet
<1>10. Cardinality({c}) = 1
  BY FS_Singleton
<1>11. \A t \in Tickets : Payouts'[t] = IF t \in S THEN Payouts[t] + 1 ELSE Payouts[t]
  <2> TAKE t \in Tickets
  <2>1. Payouts'[t] = Cardinality({d \in Landed' : t \in voucher'[d].covers})
    BY DEF Payouts
  <2>2. CASE t \in S
    <3>1. Payouts'[t] = 1 /\ Payouts[t] = 0
      BY <1>7, <1>9, <1>10, <2>1, <2>2
    <3> HIDE DEF S, by
    <3> QED
      BY <2>2, <3>1
  <2>3. CASE t \notin S
    <3>1. Payouts'[t] = Payouts[t]
      BY <1>7, <1>8, <2>1, <2>3
    <3> HIDE DEF S, by
    <3> QED
      BY <2>3, <3>1
  <2> QED
    BY <2>2, <2>3
<1>12. Payouts' = [t \in Tickets |-> Payouts'[t]]
  BY DEF Payouts
<1>13. Credited' = Credited
  BY <1>1 DEF Credited
<1>14. \A t \in S : t \in Credited
  BY <1>4 DEF Credited
<1> QED
  BY <1>4, <1>9, <1>11, <1>12, <1>13, <1>14

(* Every step of the payout path is a step of the ledger or leaves it as   *)
(* it is.                                                                  *)
LEMMA LedgerStep ==
    TypeOK /\ IInv /\ BoundToBuyer /\ PricedByCovers /\ [Next]_vars
      => [Ledger!Next]_(Ledger!vars)
<1> SUFFICES ASSUME TypeOK, IInv, BoundToBuyer, PricedByCovers, [Next]_vars
             PROVE  [Ledger!Next]_(Ledger!vars)
  OBVIOUS
<1>1. ASSUME NEW t \in Tickets, Harvested(t)
      PROVE  Ledger!Next
  <2>1. landed' = landed /\ ticket[t].win = "WON"
        /\ ticket' = [ticket EXCEPT ![t].win = "CLAIMED_ON_BASE"]
    BY <1>1 DEF Harvested
  <2>2. Payouts' = Payouts
    BY <2>1, PayoutsKept
  <2>3. t \notin Credited
    BY <2>1 DEF Credited
  <2>4. \A u \in Tickets : ticket[u] \in TicketRows
    BY DEF TypeOK
  <2>5. Credited' = Credited \cup {t}
    BY <2>1, <2>4 DEF Credited, TypeOK, TicketRows
  <2>6. Ledger!Credit(t)
    BY <2>2, <2>3, <2>5 DEF Ledger!Credit, Credited, Payouts
  <2> QED
    BY <2>6 DEF Ledger!Next
<1>2. ASSUME NEW c \in Claims, Land(c)
      PROVE  Ledger!Next
  <2> DEFINE S == voucher[c].covers
             w == Requester[c]
  <2>1. w \in Wallets
    BY PayoutConstants
  <2>2. Credited \subseteq Tickets
    BY DEF Credited
  <2>3. /\ Credited' = Credited
        /\ S # {}
        /\ \A t \in S : t \in Credited /\ Buyer[t] = w /\ Payouts[t] = 0
        /\ Payouts' = [t \in Tickets |-> IF t \in S THEN Payouts[t] + 1 ELSE Payouts[t]]
    BY <1>2, LandPays
  <2>4. S \in SUBSET Tickets
    BY <2>2, <2>3
  <2> HIDE DEF S, w
  <2>5. S \subseteq Ledger!Payable(w)
    BY <2>3 DEF Ledger!Payable, Credited, Payouts
  <2>6. Ledger!PayOut(w, S)
    BY <2>3, <2>5 DEF Ledger!PayOut, Credited, Payouts
  <2> QED
    BY <2>1, <2>4, <2>6 DEF Ledger!Next
<1>3. CASE ~ (\E t \in Tickets : Harvested(t)) /\ ~ (\E c \in Claims : Land(c))
  <2>1. Credited' = Credited
    BY <1>3, CreditedKept
  <2>2. Payouts' = Payouts
    BY <1>3, LandedKept, PayoutsKept
  <2> QED
    BY <2>1, <2>2 DEF Ledger!vars, Credited, Payouts
<1> QED
  BY <1>1, <1>2, <1>3

(* The payout path starts as an empty ledger.                              *)
LEMMA LedgerInit == Init => Ledger!Init
<1> SUFFICES ASSUME Init
             PROVE  Ledger!Init
  OBVIOUS
<1>1. Credited = {}
  BY DEF Init, Credited
<1>2. \A t \in Tickets : {c \in Landed : t \in voucher[c].covers} = {}
  BY DEF Init, Landed
<1>3. Payouts = [t \in Tickets |-> 0]
  BY <1>2, FS_EmptySet DEF Payouts
<1> QED
  BY <1>1, <1>3 DEF Ledger!Init, Credited, Payouts

(* claims.ts and payoutConfirmer.ts together implement PayoutLedger: every *)
(* landing pays a nonempty set of credited, never paid tickets of the one  *)
(* wallet that asked, and nothing else moves money.                        *)
THEOREM LedgerImplemented == Environmental => (Spec => ImplementsLedger)
<1> SUFFICES ASSUME Environmental
             PROVE  Spec => ImplementsLedger
  OBVIOUS
<1>1. Spec => [](TypeOK /\ IInv)
  BY InductiveInvariant
<1> QED
  BY <1>1, MoneyInvariant, LedgerInit, LedgerStep, PTL
  DEF Spec, ImplementsLedger, Ledger!Spec

-----------------------------------------------------------------------------
(* A wallet's landed vouchers are worth the tickets they cover together.   *)
LEMMA PaidAmountIsSum ==
    ASSUME TypeOK, NEW w \in Wallets
    PROVE  PaidAmount(w) = SumOf([c \in Claims |-> voucher[c].amount],
                                 {c \in Landed : Requester[c] = w})
<1> DEFINE L == {c \in Landed : Requester[c] = w}
           a == [c \in Claims |-> voucher[c].amount]
           body(g) == [s \in SUBSET L |->
                         IF s = {} THEN 0
                         ELSE voucher[CHOOSE x \in s : TRUE].amount
                              + g[s \ {CHOOSE x \in s : TRUE}]]
           f == CHOOSE g : g = body(g)
<1>1. IsFiniteSet(L) /\ L \subseteq Claims
  <2>1. L \in SUBSET Claims
    BY DEF Landed
  <2> HIDE DEF L
  <2> QED
    BY <2>1, PayoutConstants, FS_Subset
<1>2. PaidAmount(w) = f[L]
  BY DEF PaidAmount, MapThenSumSet, MapThenFoldSet
<1>3. PICK h : SumsOver(h, L, a) /\ SumOf(a, L) = h[L]
  <2> HIDE DEF L, a
  <2> QED
    BY <1>1, SumIsFold
<1>4. ASSUME NEW g
      PROVE  SumsOver(g, L, a) <=> g = body(g)
  <2>1. \A s \in SUBSET L : s # {} => a[First(s)] = voucher[CHOOSE x \in s : TRUE].amount
    <3> SUFFICES ASSUME NEW s \in SUBSET L, s # {}
                 PROVE  a[First(s)] = voucher[First(s)].amount
      BY DEF First
    <3>1. First(s) \in Claims
      BY <1>1, FirstIn
    <3> QED
      BY <3>1
  <2> HIDE DEF L, a
  <2> QED
    BY <2>1 DEF SumsOver, First
<1>5. f = body(f)
  <2>1. h = body(h)
    BY <1>3, <1>4
  <2> HIDE DEF body
  <2> QED
    BY <2>1
<1>6. SumsOver(f, L, a)
  BY <1>4, <1>5
<1>7. f[L] = h[L]
  <2> HIDE DEF L, a, f
  <2> QED
    BY <1>1, <1>3, <1>6, SumsAgree
<1> QED
  BY <1>2, <1>3, <1>7

(* The tickets a wallet was paid for and those it may still ask for are    *)
(* different harvested tickets of its own.                                 *)
LEMMA InvNoOverpayment ==
    TypeOK /\ IInv /\ BoundToBuyer /\ PricedByCovers => NoOverpayment
<1> SUFFICES ASSUME TypeOK, IInv, BoundToBuyer, PricedByCovers, NEW w \in Wallets
             PROVE  PaidAmount(w) + PrizeSum(Bindable(w))
                      <= PrizeSum({t \in Tickets : Buyer[t] = w /\ ticket[t].win # "WON"})
  BY DEF NoOverpayment
<1> DEFINE L == {c \in Landed : Requester[c] = w}
           a == [c \in Claims |-> voucher[c].amount]
           cover == [c \in Claims |-> voucher[c].covers]
           U == UNION {cover[c] : c \in L}
           B == Bindable(w)
           H == {t \in Tickets : Buyer[t] = w /\ ticket[t].win # "WON"}
<1>1. L \in SUBSET Claims /\ H \in SUBSET Tickets /\ B \in SUBSET Tickets
  BY DEF Landed, Bindable
<1>2. \A c \in L : /\ a[c] = SumOf(Prize, cover[c])
                   /\ \A t \in cover[c] : /\ t \in Tickets /\ ticket[t].win # "WON"
                                         /\ ticket[t].claim = c /\ Buyer[t] = w
  <2> SUFFICES ASSUME NEW c \in L
               PROVE  /\ a[c] = SumOf(Prize, cover[c])
                      /\ \A t \in cover[c] : /\ t \in Tickets /\ ticket[t].win # "WON"
                                            /\ ticket[t].claim = c /\ Buyer[t] = w
    OBVIOUS
  <2>1. c \in Claims /\ c \in Landed /\ Requester[c] = w
    BY <1>1
  <2>2. pc[c] = "issued" /\ row[c].status # "EXPIRED"
    BY <2>1, LandedIsIssued
  <2>3. voucher[c].amount = PrizeSum(voucher[c].covers)
    BY <2>1, <2>2 DEF PricedByCovers, Priced
  <2>4. a[c] = SumOf(Prize, cover[c])
    BY <2>1, <2>3, PrizeSumIsSum
  <2>5. \A t \in voucher[c].covers : /\ t \in Tickets /\ ticket[t].win # "WON"
                                   /\ ticket[t].claim = c /\ Buyer[t] = Requester[c]
    BY <2>1, <2>2, IssuedCovers
  <2>6. cover[c] = voucher[c].covers
    BY <2>1
  <2> HIDE DEF L, a, cover
  <2> QED
    BY <2>1, <2>4, <2>5, <2>6
<1>3. \A t \in Tickets : Prize[t] \in Nat
  BY PayoutConstants
<1>4. IsFiniteSet(L) /\ IsFiniteSet(H) /\ IsFiniteSet(B)
  <2> HIDE DEF L, H, B
  <2> QED
    BY <1>1, PayoutConstants, FS_Subset
<1>5. U \subseteq H /\ B \subseteq H /\ U \cap B = {}
  <2>1. \A t \in U : \E c \in L : t \in cover[c]
    OBVIOUS
  <2>2. \A t \in U : /\ t \in Tickets /\ ticket[t].win # "WON" /\ Buyer[t] = w
                   /\ ticket[t].claim \in L
    <3> SUFFICES ASSUME NEW t \in U
                 PROVE  /\ t \in Tickets /\ ticket[t].win # "WON" /\ Buyer[t] = w
                        /\ ticket[t].claim \in L
      OBVIOUS
    <3>1. PICK c \in L : t \in cover[c]
      BY <2>1
    <3> HIDE DEF L, cover, U
    <3> QED
      BY <1>2, <3>1
  <2>3. \A t \in B : /\ t \in Tickets /\ ticket[t].win # "WON" /\ Buyer[t] = w
                   /\ ticket[t].claim \notin L
    BY <1>1, Constants DEF Bindable
  <2> HIDE DEF L, U, B
  <2> QED
    BY <2>2, <2>3
<1>6. PaidAmount(w) = SumOf(a, L)
  BY PaidAmountIsSum
<1> HIDE DEF L, a, cover, H, B
<1>7. \A c \in L : /\ IsFiniteSet(cover[c])
                   /\ a[c] = SumOf(Prize, cover[c])
                   /\ \A x \in cover[c] : Prize[x] \in Nat
  <2> TAKE c \in L
  <2>1. cover[c] \in SUBSET Tickets
    BY <1>2
  <2> QED
    BY <1>2, <1>3, <2>1, PayoutConstants, FS_Subset
<1>8. \A c, d \in L : c # d => cover[c] \cap cover[d] = {}
  BY <1>2
<1>9. IsFiniteSet(U) /\ SumOf(a, L) = SumOf(Prize, U)
  BY <1>4, <1>7, <1>8, SumOfSums
<1> HIDE DEF U
<1>10. \A x \in U \cup B : Prize[x] \in Nat
  BY <1>1, <1>3, <1>5
<1>11. SumOf(Prize, U \cup B) = SumOf(Prize, U) + SumOf(Prize, B)
  BY <1>4, <1>5, <1>9, <1>10, SumUnion
<1>12. SumOf(Prize, U \cup B) <= SumOf(Prize, H)
  <2>1. U \cup B \subseteq H
    BY <1>5
  <2>2. \A x \in H : Prize[x] \in Nat
    BY <1>1, <1>3
  <2> DEFINE V == U \cup B
  <2> HIDE DEF V
  <2>3. V \subseteq H
    BY <2>1 DEF V
  <2>4. SumOf(Prize, V) <= SumOf(Prize, H)
    BY <1>4, <2>2, <2>3, SumMonotonic
  <2> QED
    BY <2>4 DEF V
<1>13. PrizeSum(B) = SumOf(Prize, B) /\ PrizeSum(H) = SumOf(Prize, H)
  BY PrizeSumIsSum
<1>14. PaidAmount(w) + PrizeSum(B) <= PrizeSum(H)
  BY <1>6, <1>9, <1>11, <1>12, <1>13
<1> QED
  BY <1>14 DEF B, H

(* In money: what was paid to a wallet plus what it may still ask for never *)
(* exceeds what was harvested for it.                                      *)
THEOREM NeverOverpaid == Environmental => (Spec => []NoOverpayment)
<1> SUFFICES ASSUME Environmental
             PROVE  Spec => []NoOverpayment
  OBVIOUS
<1>1. Spec => [](TypeOK /\ IInv)
  BY InductiveInvariant
<1> QED
  BY <1>1, MoneyInvariant, InvNoOverpayment, PTL
=============================================================================
