------------------------- MODULE ThisContractProofs -------------------------
(***************************************************************************)
(* Theorems about ThisContract for any number of threads and contracts and *)
(* runs nested as deep as there are contracts.                             *)
(***************************************************************************)
EXTENDS ThisContract, TLAPS

(* p is the innermost guard below i on the stack of t, or there is none.   *)
Innermost(t, p, i) ==
  /\ p \in 0 .. i - 1
  /\ p # 0 => Guarded(stack[t][p])
  /\ \A j \in p + 1 .. i - 1 : ~Guarded(stack[t][j])

(* A visit that is not the innermost has called something from a callback. *)
StackInv ==
  \A t \in Threads : \A i \in 1 .. depth(t) :
    /\ i < depth(t) => stack[t][i].step \in {"callback", "handler"}
    /\ stack[t][i].step = "begun" => stack[t][i].kind = "work"

(* tlsThisContract_ points to the innermost guard, and each guard to the   *)
(* next one outwards.                                                      *)
LinksInv ==
  \A t \in Threads :
    /\ Innermost(t, tls[t], depth(t) + 1)
    /\ \A i \in 1 .. depth(t) :
         Guarded(stack[t][i]) => Innermost(t, stack[t][i].prev, i)

(* A contract is on the stack once, and its execute flag is set.           *)
OwnersInv ==
  \A t \in Threads : \A i \in 1 .. depth(t) :
    /\ stack[t][i].contract \in visited
    /\ \A u \in Threads : \A j \in 1 .. depth(u) :
         stack[u][j].contract = stack[t][i].contract => u = t /\ j = i

TInv == TypeOK /\ StackInv /\ LinksInv /\ OwnersInv

(* The top of t's stack gets another step, and what is in the guard.       *)
TopBecomes(t, p, s) ==
  /\ depth(t) \in Nat \ {0}
  /\ stack' \in [Threads -> Seq(Visits)]
  /\ \A u \in Threads \ {t} : stack'[u] = stack[u]
  /\ Len(stack'[t]) = depth(t)
  /\ \A i \in 1 .. depth(t) - 1 : stack'[t][i] = stack[t][i]
  /\ Top(t) \in Visits
  /\ stack'[t][depth(t)] = [Top(t) EXCEPT !.prev = p, !.step = s]

LEMMA GotoMovesTop ==
  ASSUME TypeOK, NEW t \in Threads, NEW s \in Steps, depth(t) > 0, Goto(t, s)
  PROVE  TopBecomes(t, Top(t).prev, s)
<1>1. stack[t] \in Seq(Visits) /\ depth(t) \in Nat \ {0}
  BY DEF TypeOK, depth
<1>2. Top(t) \in Visits
  BY <1>1 DEF Top, depth
<1>3. stack' = [stack EXCEPT ![t] =
                  [stack[t] EXCEPT ![depth(t)] = [Top(t) EXCEPT !.step = s]]]
  BY DEF Goto, Top
<1>4. [Top(t) EXCEPT !.step = s] \in Visits
  BY <1>2 DEF Visits
<1>5. [stack[t] EXCEPT ![depth(t)] = [Top(t) EXCEPT !.step = s]] \in Seq(Visits)
  BY <1>1, <1>4 DEF depth
<1>6. [Top(t) EXCEPT !.step = s] = [Top(t) EXCEPT !.prev = Top(t).prev, !.step = s]
  BY <1>2 DEF Visits
<1> DEFINE v == [Top(t) EXCEPT !.step = s]
<1>7. stack' \in [Threads -> Seq(Visits)] /\ stack'[t] = [stack[t] EXCEPT ![depth(t)] = v]
  BY <1>3, <1>5 DEF TypeOK
<1>8. \A u \in Threads \ {t} : stack'[u] = stack[u]
  BY <1>3 DEF TypeOK
<1> HIDE DEF v
<1>9. Len(stack'[t]) = depth(t) /\ stack'[t][depth(t)] = v
      /\ \A i \in 1 .. depth(t) - 1 : stack'[t][i] = stack[t][i]
  BY <1>1, <1>7 DEF depth
<1>. QED
  BY <1>1, <1>2, <1>6, <1>7, <1>8, <1>9 DEF TopBecomes, v

LEMMA MakeGuardMovesTop ==
  ASSUME TypeOK, NEW t \in Threads, MakeGuard(t)
  PROVE  TopBecomes(t, tls[t], "callback")
<1>1. stack[t] \in Seq(Visits) /\ depth(t) \in Nat \ {0} /\ tls[t] \in Nat
  BY DEF TypeOK, depth, MakeGuard
<1>2. Top(t) \in Visits
  BY <1>1 DEF Top, depth
<1> DEFINE v == [Top(t) EXCEPT !.prev = tls[t], !.step = "callback"]
<1>3. stack' = [stack EXCEPT ![t] = [stack[t] EXCEPT ![depth(t)] = v]]
  BY <1>1, <1>2 DEF MakeGuard, Top, TypeOK, depth, Visits
<1>4. v \in Visits
  BY <1>1, <1>2 DEF Visits, Steps
<1>5. [stack[t] EXCEPT ![depth(t)] = v] \in Seq(Visits)
  BY <1>1, <1>4 DEF depth
<1>. QED
  BY <1>1, <1>2, <1>3, <1>4, <1>5 DEF TopBecomes, TypeOK, depth

-----------------------------------------------------------------------------
(* A step that changes the top of a stack alone. *)
LEMMA TopKeepsStackInv ==
  ASSUME TypeOK, StackInv, NEW t \in Threads, NEW p \in Nat, NEW s \in Steps,
         TopBecomes(t, p, s), s # "begun"
  PROVE  StackInv'
<1> SUFFICES ASSUME NEW u \in Threads, NEW i \in 1 .. depth(u)'
             PROVE  /\ i < depth(u)' => stack'[u][i].step \in {"callback", "handler"}
                    /\ stack'[u][i].step = "begun" => stack'[u][i].kind = "work"
  BY DEF StackInv
<1>1. CASE u # t
  BY <1>1 DEF TopBecomes, StackInv, depth
<1>2. CASE u = t /\ i < depth(t)
  BY <1>2 DEF TopBecomes, StackInv, depth
<1>3. CASE u = t /\ i = depth(t)
  <2>1. stack'[t][depth(t)].step = s
    BY DEF TopBecomes, Visits
  <2>2. depth(t)' = depth(t)
    BY DEF TopBecomes, depth
  <2>. QED
    BY <1>3, <2>1, <2>2
<1>. QED
  BY <1>1, <1>2, <1>3 DEF TopBecomes, depth

LEMMA TopKeepsOwnersInv ==
  ASSUME TypeOK, OwnersInv, NEW t \in Threads, NEW p \in Nat, NEW s \in Steps,
         TopBecomes(t, p, s), visited' = visited
  PROVE  OwnersInv'
<1>1. \A u \in Threads : depth(u)' = depth(u)
  BY DEF TopBecomes, depth
<1>2. \A u \in Threads : \A i \in 1 .. depth(u) :
        stack'[u][i].contract = stack[u][i].contract
  <2> SUFFICES ASSUME NEW u \in Threads, NEW i \in 1 .. depth(u)
               PROVE  stack'[u][i].contract = stack[u][i].contract
    OBVIOUS
  <2>1. CASE u # t \/ i # depth(t)
    BY <2>1 DEF TopBecomes
  <2>2. CASE u = t /\ i = depth(t)
    BY <2>2 DEF TopBecomes, Visits, Top
  <2>. QED
    BY <2>1, <2>2
<1>. QED
  BY <1>1, <1>2 DEF OwnersInv

(* Of the guards below, nothing changes. *)
LEMMA TopKeepsLinksBelow ==
  ASSUME TypeOK, LinksInv, NEW t \in Threads, NEW p \in Nat, NEW s \in Steps,
         TopBecomes(t, p, s),
         \A u \in Threads \ {t} : tls'[u] = tls[u],
         Innermost(t, tls[t], depth(t) + 1)',
         Guarded(stack'[t][depth(t)]) => Innermost(t, p, depth(t))
  PROVE  LinksInv'
<1>1. \A u \in Threads : depth(u)' = depth(u) /\ depth(u) \in Nat
  BY DEF TopBecomes, depth, TypeOK
<1>2. \A u \in Threads : \A i \in 1 .. depth(u) :
        u # t \/ i < depth(t) => stack'[u][i] = stack[u][i]
  BY <1>1 DEF TopBecomes
<1>3. \A i \in 1 .. depth(t) : \A q : Innermost(t, q, i) => Innermost(t, q, i)'
  BY <1>1, <1>2 DEF Innermost
<1>4. ASSUME NEW u \in Threads PROVE Innermost(u, tls[u], depth(u) + 1)'
  <2>1. CASE u # t
    BY <1>1, <1>2, <2>1 DEF LinksInv, Innermost
  <2>. QED
    BY <2>1
<1>5. ASSUME NEW u \in Threads, NEW i \in 1 .. depth(u), Guarded(stack'[u][i])
      PROVE  Innermost(u, stack[u][i].prev, i)'
  <2>1. CASE u # t
    BY <1>1, <1>2, <1>5, <2>1 DEF LinksInv, Innermost
  <2>2. CASE u = t /\ i < depth(t)
    BY <1>1, <1>2, <1>3, <1>5, <2>2 DEF LinksInv
  <2>3. CASE u = t /\ i = depth(t)
    <3>1. stack'[t][depth(t)].prev = p
      BY DEF TopBecomes, Visits
    <3>. QED
      BY <1>3, <1>5, <2>3, <3>1
  <2>. QED
    BY <1>1, <2>1, <2>2, <2>3
<1>. QED
  BY <1>1, <1>4, <1>5 DEF LinksInv

-----------------------------------------------------------------------------
LEMMA TopKeepsTypes ==
  ASSUME TypeOK, NEW t \in Threads, NEW p \in Nat, NEW s \in Steps,
         TopBecomes(t, p, s),
         tls' \in [Threads -> Nat],
         tls'[t] <= depth(t), \A u \in Threads \ {t} : tls'[u] = tls[u],
         visited' \subseteq Contracts, requested' \subseteq Contracts,
         released' \subseteq Contracts
  PROVE  TypeOK'
<1>1. \A u \in Threads : depth(u)' = depth(u)
  BY DEF TopBecomes, depth
<1>. QED
  BY <1>1 DEF TypeOK, TopBecomes

(* A step between two places of a visit at which its guard is there, or at *)
(* both of which it is not.                                                *)
LEMMA GotoStep ==
  ASSUME TInv, NEW t \in Threads, NEW s \in Steps, depth(t) > 0,
         s \in {"handler", "over"}, Top(t).step \in {"callback", "handler"},
         Goto(t, s), UNCHANGED <<tls, visited, requested, released>>
  PROVE  TInv'
<1> USE DEF TInv
<1>1. TopBecomes(t, Top(t).prev, s)
  BY GotoMovesTop
<1>2. Top(t) \in Visits /\ Top(t).prev \in Nat
  BY <1>1 DEF TopBecomes, Visits
<1>3. /\ stack'[t][depth(t)].step = s
      /\ stack'[t][depth(t)].kind = Top(t).kind
  BY <1>1 DEF TopBecomes, Visits
<1>4. Guarded(stack'[t][depth(t)]) <=> Guarded(Top(t))
  BY <1>3 DEF Guarded
<1>5. depth(t)' = depth(t) /\ depth(t) \in Nat /\ tls[t] \in 0 .. depth(t)
  BY <1>1 DEF TopBecomes, depth, TypeOK
<1>6. Innermost(t, tls[t], depth(t) + 1)'
  <2>1. \A j \in 1 .. depth(t) : Guarded(stack'[t][j]) <=> Guarded(stack[t][j])
    BY <1>1, <1>4, <1>5 DEF TopBecomes, Top
  <2>2. Innermost(t, tls[t], depth(t) + 1)
    BY DEF LinksInv
  <2>. QED
    BY <1>5, <2>1, <2>2 DEF Innermost
<1>7. Guarded(Top(t)) => Innermost(t, Top(t).prev, depth(t))
  BY <1>5 DEF LinksInv, Top
<1>8. TypeOK'
  BY <1>1, <1>2, <1>5, TopKeepsTypes DEF TypeOK
<1>9. StackInv' /\ OwnersInv'
  BY <1>1, <1>2, TopKeepsStackInv, TopKeepsOwnersInv
<1>10. LinksInv'
  BY <1>1, <1>2, <1>4, <1>6, <1>7, TopKeepsLinksBelow
<1>. QED
  BY <1>8, <1>9, <1>10

LEMMA MakeGuardStep ==
  ASSUME TInv, NEW t \in Threads, MakeGuard(t)
  PROVE  TInv'
<1> USE DEF TInv
<1>1. TopBecomes(t, tls[t], "callback")
  BY MakeGuardMovesTop
<1>2. /\ depth(t) \in Nat \ {0}
      /\ depth(t)' = depth(t)
      /\ tls[t] \in 0 .. depth(t)
      /\ \A u \in Threads \ {t} : tls'[u] = tls[u]
      /\ tls'[t] = depth(t)
      /\ tls' \in [Threads -> Nat]
      /\ UNCHANGED <<visited, requested, released>>
  <2>1. depth(t) \in Nat \ {0} /\ depth(t)' = depth(t)
    BY <1>1 DEF TopBecomes, depth
  <2>2. tls' = [tls EXCEPT ![t] = depth(t)] /\ UNCHANGED <<visited, requested, released>>
    BY DEF MakeGuard
  <2>3. tls \in [Threads -> Nat] /\ tls[t] \in 0 .. depth(t)
    BY DEF TypeOK
  <2>. QED
    BY <2>1, <2>2, <2>3
<1>3. Innermost(t, tls[t], depth(t) + 1)
  BY DEF LinksInv
<1>4. ~Guarded(Top(t)) /\ Top(t).kind = "work"
  BY <1>2 DEF MakeGuard, Guarded, StackInv, Top
<1>5. tls[t] # depth(t)
  BY <1>2, <1>3, <1>4 DEF Innermost, Top
<1>6. Innermost(t, tls[t], depth(t))
  BY <1>2, <1>3, <1>5 DEF Innermost
<1>7. Guarded(stack'[t][depth(t)])
  BY <1>1, <1>4 DEF TopBecomes, Visits, Guarded
<1>8. Innermost(t, tls[t], depth(t) + 1)'
  BY <1>2, <1>7 DEF Innermost
<1>9. "callback" \in Steps /\ tls[t] \in Nat
  BY <1>2 DEF Steps
<1>10. TypeOK'
  BY <1>1, <1>2, <1>9, TopKeepsTypes DEF TypeOK
<1>11. StackInv' /\ OwnersInv'
  BY <1>1, <1>9, TopKeepsStackInv, TopKeepsOwnersInv DEF MakeGuard
<1>12. LinksInv'
  BY <1>1, <1>2, <1>6, <1>8, <1>9, TopKeepsLinksBelow DEF TypeOK
<1>. QED
  BY <1>10, <1>11, <1>12

LEMMA DestroyGuardStep ==
  ASSUME TInv, NEW t \in Threads, DestroyGuard(t)
  PROVE  TInv'
<1> USE DEF TInv
<1> DEFINE p == Top(t).prev
<1>1. TopBecomes(t, p, "unguarded")
  BY GotoMovesTop DEF DestroyGuard, Steps
<1>2. /\ depth(t) \in Nat \ {0}
      /\ depth(t)' = depth(t)
      /\ \A u \in Threads \ {t} : tls'[u] = tls[u]
      /\ tls'[t] = p
      /\ p \in Nat
      /\ tls' \in [Threads -> Nat]
      /\ UNCHANGED <<visited, requested, released>>
  <2>1. depth(t) \in Nat \ {0} /\ depth(t)' = depth(t) /\ p \in Nat
    BY <1>1 DEF TopBecomes, depth, Visits
  <2>2. tls' = [tls EXCEPT ![t] = p] /\ UNCHANGED <<visited, requested, released>>
    BY DEF DestroyGuard
  <2>3. tls \in [Threads -> Nat]
    BY DEF TypeOK
  <2>. QED
    BY <2>1, <2>2, <2>3
<1>3. Guarded(Top(t))
  BY DEF DestroyGuard, Guarded
<1>4. Innermost(t, p, depth(t))
  BY <1>2, <1>3 DEF LinksInv, Top
<1>5. ~Guarded(stack'[t][depth(t)])
  BY <1>1 DEF TopBecomes, Visits, Guarded
<1>6. Innermost(t, tls[t], depth(t) + 1)'
  <2>1. \A j \in 1 .. depth(t) - 1 : stack'[t][j] = stack[t][j]
    BY <1>1 DEF TopBecomes
  <2>. QED
    BY <1>2, <1>4, <1>5, <2>1 DEF Innermost
<1>7. "unguarded" \in Steps
  BY DEF Steps
<1>8. p \in 0 .. depth(t)
  BY <1>2, <1>4 DEF Innermost
<1> HIDE DEF p
<1>9. TypeOK'
  BY <1>1, <1>2, <1>7, <1>8, TopKeepsTypes DEF TypeOK
<1>10. StackInv' /\ OwnersInv'
  BY <1>1, <1>2, <1>7, TopKeepsStackInv, TopKeepsOwnersInv DEF DestroyGuard
<1>11. LinksInv'
  BY <1>1, <1>2, <1>5, <1>6, <1>7, TopKeepsLinksBelow DEF TypeOK
<1>. QED
  BY <1>9, <1>10, <1>11

-----------------------------------------------------------------------------
(* The beginning and the end of a visit. *)
LEMMA BeginStep ==
  ASSUME TInv, NEW t \in Threads, NEW c \in Contracts, Begin(t, c)
  PROVE  TInv'
<1> USE DEF TInv
<1> DEFINE n == depth(t) + 1
<1>1. PICK v \in Visits : /\ v.contract = c /\ ~Guarded(v)
                          /\ v.step = "begun" => v.kind = "work"
                          /\ stack' = [stack EXCEPT ![t] = Append(@, v)]
  <2>1. CASE c \in released
    <3> DEFINE v == [contract |-> c, kind |-> "release", prev |-> 0, step |-> "callback"]
    <3>1. v \in Visits /\ ~Guarded(v)
      BY DEF Visits, Steps, Guarded
    <3>. QED
      BY <2>1, <3>1 DEF Begin
  <2>2. CASE c \notin released
    <3> DEFINE v == [contract |-> c, kind |-> "work", prev |-> 0, step |-> "begun"]
    <3>1. v \in Visits /\ ~Guarded(v)
      BY DEF Visits, Steps, Guarded
    <3>. QED
      BY <2>2, <3>1 DEF Begin
  <2>. QED
    BY <2>1, <2>2
<1>2. /\ stack[t] \in Seq(Visits)
      /\ depth(t) \in Nat
      /\ stack'[t] = Append(stack[t], v)
      /\ stack' \in [Threads -> Seq(Visits)]
      /\ \A u \in Threads \ {t} : stack'[u] = stack[u]
  BY <1>1 DEF TypeOK, depth
<1>3. /\ Len(stack'[t]) = n
      /\ stack'[t][n] = v
      /\ \A i \in 1 .. depth(t) : stack'[t][i] = stack[t][i]
  BY <1>2 DEF depth
<1>4. /\ tls' = tls /\ released' = released
      /\ visited' = visited \cup {c} /\ requested' = requested \ {c}
      /\ c \notin visited
      /\ depth(t) = 0 \/ Top(t).step \in {"callback", "handler"}
  BY DEF Begin, InCallback
<1>5. \A u \in Threads : /\ depth(u) \in Nat
                         /\ depth(u)' = IF u = t THEN n ELSE depth(u)
                         /\ \A i \in 1 .. depth(u) : stack'[u][i] = stack[u][i]
  <2>1. \A u \in Threads : depth(u) \in Nat
    BY DEF depth, TypeOK
  <2>2. \A u \in Threads \ {t} : depth(u)' = depth(u)
    BY <1>2 DEF depth
  <2>3. depth(t)' = n
    BY <1>3 DEF depth
  <2>. QED
    BY <1>2, <1>3, <2>1, <2>2, <2>3
<1>6. TypeOK'
  <2>1. \A u \in Threads : tls[u] <= depth(u)'
    BY <1>5 DEF TypeOK
  <2>. QED
    BY <1>2, <1>4, <2>1 DEF TypeOK
<1>7. StackInv'
  <2> SUFFICES ASSUME NEW u \in Threads, NEW i \in 1 .. depth(u)'
               PROVE  /\ i < depth(u)' => stack'[u][i].step \in {"callback", "handler"}
                      /\ stack'[u][i].step = "begun" => stack'[u][i].kind = "work"
    BY DEF StackInv
  <2>1. CASE u # t
    BY <1>5, <2>1 DEF StackInv
  <2>2. CASE u = t /\ i = n
    BY <1>1, <1>3, <1>5, <2>2
  <2>3. CASE u = t /\ i < depth(t)
    BY <1>5, <2>3 DEF StackInv
  <2>4. CASE u = t /\ i = depth(t)
    BY <1>4, <1>5, <2>4 DEF StackInv, Top
  <2>. QED
    BY <1>5, <2>1, <2>2, <2>3, <2>4
<1>8. LinksInv'
  <2>2. ASSUME NEW u \in Threads PROVE Innermost(u, tls[u], depth(u) + 1)'
    <3>1. Innermost(u, tls[u], depth(u) + 1)
      BY DEF LinksInv
    <3>2. CASE u # t
      BY <1>4, <1>5, <3>1, <3>2 DEF Innermost
    <3>3. CASE u = t
      <4>1. tls[t] \in 0 .. depth(t) /\ tls'[t] = tls[t] /\ depth(t)' = n
        BY <1>4, <1>5, <3>1, <3>3 DEF Innermost
      <4>2. tls[t] # 0 => Guarded(stack'[t][tls[t]])
        BY <1>3, <3>1, <3>3, <4>1 DEF Innermost
      <4>3. \A j \in tls[t] + 1 .. n : ~Guarded(stack'[t][j])
        BY <1>1, <1>2, <1>3, <3>1, <3>3, <4>1 DEF Innermost
      <4>4. ASSUME NEW q, NEW m, q = tls'[t], m = n + 1
            PROVE  Innermost(t, q, m)'
        <5>1. q \in 0 .. m - 1 /\ m - 1 = n
          BY <1>2, <4>1, <4>4
        <5>2. q # 0 => Guarded(stack'[t][q])
          BY <4>1, <4>2, <4>4
        <5>3. \A j \in q + 1 .. m - 1 : ~Guarded(stack'[t][j])
          BY <4>1, <4>3, <4>4, <5>1
        <5>. QED
          BY <5>1, <5>2, <5>3 DEF Innermost
      <4>. QED
        BY <3>3, <4>1, <4>4
    <3>. QED
      BY <3>2, <3>3
  <2>3. ASSUME NEW u \in Threads, NEW i \in 1 .. depth(u)', Guarded(stack'[u][i])
        PROVE  Innermost(u, stack[u][i].prev, i)'
    <3>1. i \in 1 .. depth(u) /\ stack'[u][i] = stack[u][i]
      BY <1>1, <1>3, <1>5, <2>3
    <3>2. Innermost(u, stack[u][i].prev, i)
      BY <2>3, <3>1 DEF LinksInv
    <3>. QED
      BY <1>5, <3>1, <3>2 DEF Innermost
  <2>. QED
    BY <2>2, <2>3 DEF LinksInv
<1>9. OwnersInv'
  <2>1. ASSUME NEW u \in Threads, NEW i \in 1 .. depth(u)'
        PROVE  \/ u = t /\ i = n /\ stack'[u][i].contract = c
               \/ /\ i \in 1 .. depth(u)
                  /\ stack'[u][i] = stack[u][i]
                  /\ stack[u][i].contract \in visited \ {c}
    BY <1>1, <1>3, <1>4, <1>5 DEF OwnersInv
  <2>. QED
    BY <1>4, <2>1 DEF OwnersInv
<1>. QED
  BY <1>6, <1>7, <1>8, <1>9

LEMMA EndStep ==
  ASSUME TInv, NEW t \in Threads, EndRun(t) \/ EndRelease(t)
  PROVE  TInv'
<1> USE DEF TInv
<1> DEFINE n == depth(t) - 1
           c == Top(t).contract
<1>1. /\ stack[t] \in Seq(Visits)
      /\ depth(t) \in Nat \ {0}
      /\ stack'[t] = Front(stack[t])
      /\ \A u \in Threads \ {t} : stack'[u] = stack[u]
      /\ stack' = [stack EXCEPT ![t] = stack'[t]]
  <2>1. stack \in [Threads -> Seq(Visits)] /\ depth(t) > 0
    BY DEF TypeOK, EndRun, EndRelease
  <2>2. stack' = [stack EXCEPT ![t] = Front(@)]
    BY DEF EndRun, EndRelease
  <2>. QED
    BY <2>1, <2>2 DEF depth
<1>2. /\ stack'[t] \in Seq(Visits)
      /\ Len(stack'[t]) = n
      /\ \A i \in 1 .. n : stack'[t][i] = stack[t][i]
  BY <1>1 DEF depth, Front
<1>3. stack' \in [Threads -> Seq(Visits)]
  BY <1>1, <1>2 DEF TypeOK
<1>4. /\ tls' = tls /\ visited' = visited \ {c}
      /\ released' \subseteq released /\ requested' \subseteq requested
  BY DEF EndRun, EndRelease
<1>5. ~Guarded(Top(t))
  BY DEF EndRun, EndRelease, Guarded
<1>6. \A u \in Threads : /\ depth(u) \in Nat
                         /\ depth(u)' = IF u = t THEN n ELSE depth(u)
                         /\ \A i \in 1 .. depth(u)' : /\ i \in 1 .. depth(u)
                                                     /\ stack'[u][i] = stack[u][i]
  <2>1. \A u \in Threads : depth(u) \in Nat
    BY DEF depth, TypeOK
  <2>2. \A u \in Threads \ {t} : depth(u)' = depth(u)
    BY <1>1 DEF depth
  <2>3. depth(t)' = n
    BY <1>2 DEF depth
  <2>4. ASSUME NEW u \in Threads, NEW i \in 1 .. depth(u)'
        PROVE  i \in 1 .. depth(u) /\ stack'[u][i] = stack[u][i]
    <3>1. CASE u = t
      BY <1>1, <1>2, <2>3, <3>1
    <3>2. CASE u # t
      BY <1>1, <2>2, <3>2
    <3>. QED
      BY <3>1, <3>2
  <2>. QED
    BY <2>1, <2>2, <2>3, <2>4
<1>7. tls[t] \in 0 .. n
  <2>1. tls[t] \in 0 .. depth(t) /\ (tls[t] # 0 => Guarded(stack[t][tls[t]]))
    BY <1>1 DEF LinksInv, Innermost
  <2>. QED
    BY <1>1, <1>5, <2>1 DEF Top
<1>8. TypeOK'
  <2>1. \A u \in Threads : tls[u] <= depth(u)'
    <3>1. tls[t] <= depth(t)'
      BY <1>1, <1>6, <1>7
    <3>2. \A u \in Threads \ {t} : depth(u)' = depth(u)
      BY <1>6
    <3>. QED
      BY <3>1, <3>2 DEF TypeOK
  <2>. QED
    BY <1>3, <1>4, <2>1 DEF TypeOK
<1>9. StackInv'
  BY <1>1, <1>6 DEF StackInv
<1>10. LinksInv'
  <2>1. ASSUME NEW u \in Threads PROVE Innermost(u, tls[u], depth(u) + 1)'
    <3>1. Innermost(u, tls[u], depth(u) + 1)
      BY DEF LinksInv
    <3>2. CASE u # t
      BY <1>4, <1>6, <3>1, <3>2 DEF Innermost
    <3>3. CASE u = t
      BY <1>1, <1>4, <1>6, <1>7, <3>1, <3>3 DEF Innermost
    <3>. QED
      BY <3>2, <3>3
  <2>2. ASSUME NEW u \in Threads, NEW i \in 1 .. depth(u)', Guarded(stack'[u][i])
        PROVE  Innermost(u, stack[u][i].prev, i)'
    <3>1. Innermost(u, stack[u][i].prev, i)
      BY <1>6, <2>2 DEF LinksInv
    <3>2. depth(u)' \in Nat /\ \A j \in 1 .. i : stack'[u][j] = stack[u][j]
      BY <1>1, <1>6
    <3>. QED
      BY <3>1, <3>2 DEF Innermost
  <2>. QED
    BY <2>1, <2>2 DEF LinksInv
<1>11. OwnersInv'
  <2>1. ASSUME NEW u \in Threads, NEW i \in 1 .. depth(u)'
        PROVE  stack[u][i].contract # c
    <3>1. i \in 1 .. depth(u) /\ ~(u = t /\ i = depth(t))
      BY <1>1, <1>6
    <3>. QED
      BY <1>1, <3>1 DEF OwnersInv, Top
  <2>. QED
    BY <1>4, <1>6, <2>1 DEF OwnersInv
<1>. QED
  BY <1>8, <1>9, <1>10, <1>11

-----------------------------------------------------------------------------
(* Requests leave stacks and guards alone. *)
LEMMA RequestStep ==
  ASSUME TInv, UNCHANGED <<stack, tls, visited>>,
         requested' \subseteq Contracts, released' \subseteq Contracts
  PROVE  TInv'
<1>1. TypeOK'
  BY DEF TInv, TypeOK, depth
<1>2. StackInv'
  BY DEF TInv, StackInv, depth
<1>3. LinksInv'
  BY DEF TInv, LinksInv, Innermost, depth
<1>4. OwnersInv'
  BY DEF TInv, OwnersInv, depth
<1>. QED
  BY <1>1, <1>2, <1>3, <1>4 DEF TInv

LEMMA NamedIsAContract ==
  ASSUME TInv, NEW t \in Threads, tls[t] # 0
  PROVE  Named(t) \in Contracts
<1>1. stack[t] \in Seq(Visits) /\ tls[t] \in 1 .. Len(stack[t])
  BY DEF TInv, TypeOK, depth
<1>2. stack[t][tls[t]] \in Visits
  BY <1>1
<1>. QED
  BY <1>2 DEF Named, Visits

LEMMA InitTInv == Init => TInv
<1> SUFFICES ASSUME Init PROVE TInv
  OBVIOUS
<1>1. \A t \in Threads : depth(t) = 0 /\ tls[t] = 0
  BY DEF Init, depth
<1>2. TypeOK
  BY <1>1 DEF Init, TypeOK
<1>3. StackInv /\ OwnersInv
  BY <1>1 DEF StackInv, OwnersInv
<1>4. LinksInv
  BY <1>1 DEF LinksInv, Innermost
<1>. QED
  BY <1>2, <1>3, <1>4 DEF TInv

LEMMA NextTInv == TInv /\ [Next]_vars => TInv'
<1> SUFFICES ASSUME TInv, [Next]_vars PROVE TInv'
  OBVIOUS
<1>1. ASSUME NEW t \in Threads, NEW c \in Contracts, Begin(t, c) PROVE TInv'
  BY <1>1, BeginStep
<1>2. ASSUME NEW t \in Threads, MakeGuard(t) \/ DestroyGuard(t) \/ EndRun(t) \/ EndRelease(t)
      PROVE  TInv'
  BY <1>2, MakeGuardStep, DestroyGuardStep, EndStep
<1>3. ASSUME NEW t \in Threads, Throw(t) PROVE TInv'
  BY <1>3, GotoStep DEF Throw, Steps
<1>4. ASSUME NEW t \in Threads, Return(t) \/ Escape(t) PROVE TInv'
  BY <1>4, GotoStep DEF Return, Escape, InCallback, Steps
<1>5. ASSUME NEW t \in Threads, ThisSchedule(t) \/ ThisRelease(t) PROVE TInv'
  <2>1. requested' \subseteq Contracts /\ released' \subseteq Contracts
    BY <1>5, NamedIsAContract DEF ThisSchedule, ThisRelease, TInv, TypeOK
  <2>. QED
    BY <1>5, <2>1, RequestStep DEF ThisSchedule, ThisRelease
<1>6. ASSUME NEW c \in Contracts, ClientRequest(c) PROVE TInv'
  <2>1. requested' \subseteq Contracts /\ released' \subseteq Contracts
    BY <1>6 DEF ClientRequest, TInv, TypeOK
  <2>. QED
    BY <1>6, <2>1, RequestStep DEF ClientRequest
<1>7. CASE UNCHANGED vars
  BY <1>7, RequestStep DEF vars, TInv, TypeOK
<1>. QED
  BY <1>1, <1>2, <1>3, <1>4, <1>5, <1>6, <1>7 DEF Next

THEOREM StacksInvariant == Spec => []TInv
  BY InitTInv, NextTInv, PTL DEF Spec

(* In a run's callbacks this_contract is that run's contract, however deep *)
(* runs are nested and whichever of them ended by exceptions.              *)
THEOREM NamesInnermost == Spec => []NamesInnermostRun
<1>1. TInv => NamesInnermostRun
  <2> SUFFICES ASSUME TInv, NEW t \in Threads
               PROVE  /\ tls[t] # 0 => tls[t] <= depth(t) /\ Guarded(stack[t][tls[t]])
                      /\ \A i \in tls[t] + 1 .. depth(t) : ~Guarded(stack[t][i])
    BY DEF NamesInnermostRun
  <2>1. Innermost(t, tls[t], depth(t) + 1) /\ depth(t) \in Nat
    BY DEF TInv, LinksInv, TypeOK, depth
  <2>. QED
    BY <2>1 DEF Innermost
<1>. QED
  BY <1>1, StacksInvariant, PTL

(* No thread can schedule or release, through this_contract, a contract    *)
(* that another thread is running.                                         *)
THEOREM NamedIsOurs == Spec => []NamedContractIsOurs
<1>1. TInv => NamedContractIsOurs
  <2> SUFFICES ASSUME TInv, NEW t \in Threads, tls[t] # 0
               PROVE  /\ Named(t) \in visited
                      /\ \A u \in Threads \ {t} : \A i \in 1 .. depth(u) :
                           stack[u][i].contract # Named(t)
    BY DEF NamedContractIsOurs
  <2>1. tls[t] \in 1 .. depth(t)
    BY DEF TInv, TypeOK, depth
  <2>. QED
    BY <2>1 DEF TInv, OwnersInv, Named
<1>. QED
  BY <1>1, StacksInvariant, PTL

-----------------------------------------------------------------------------
(* No contract is stranded. *)

(* A move within a visit, by whichever destructor or exception.            *)
LEMMA MoveStrandsNone ==
  ASSUME NoneStrandedByExceptions, NEW t \in Threads, NEW p, NEW s,
         TopBecomes(t, p, s), UNCHANGED <<visited, requested, released>>
  PROVE  NoneStrandedByExceptions'
<1>1. \A u \in Threads : depth(u)' = depth(u)
  BY DEF TopBecomes, depth
<1>2. \A u \in Threads : \A k \in 1 .. depth(u) :
        /\ stack'[u][k].contract = stack[u][k].contract
        /\ stack'[u][k].kind = stack[u][k].kind
  <2> SUFFICES ASSUME NEW u \in Threads, NEW k \in 1 .. depth(u)
               PROVE  /\ stack'[u][k].contract = stack[u][k].contract
                      /\ stack'[u][k].kind = stack[u][k].kind
    OBVIOUS
  <2>1. CASE u = t /\ k = depth(t)
    BY <2>1 DEF TopBecomes, Visits, Top
  <2>2. CASE u # t \/ k # depth(t)
    BY <2>2 DEF TopBecomes
  <2>. QED
    BY <2>1, <2>2
<1>3. \A c, kinds : UnderWay(c, kinds) => UnderWay(c, kinds)'
  BY <1>1, <1>2 DEF UnderWay
<1>. QED
  BY <1>3 DEF NoneStrandedByExceptions

LEMMA BeginStrandsNone ==
  ASSUME TInv, NoneStrandedByExceptions,
         NEW t \in Threads, NEW c \in Contracts, Begin(t, c)
  PROVE  NoneStrandedByExceptions'
<1> DEFINE n == depth(t) + 1
           kind == IF c \in released THEN "release" ELSE "work"
           v == [contract |-> c, kind |-> kind, prev |-> 0,
                 step |-> IF c \in released THEN "callback" ELSE "begun"]
<1>1. stack' = [stack EXCEPT ![t] = Append(@, v)]
  BY DEF Begin
<1>2. \A u \in Threads : stack[u] \in Seq(Visits) /\ depth(u) \in Nat
  BY DEF TInv, TypeOK, depth
<1>3. stack'[t] = Append(stack[t], v) /\ \A u \in Threads \ {t} : stack'[u] = stack[u]
  BY <1>1 DEF TInv, TypeOK
<1>4. /\ depth(t)' = n /\ stack'[t][n] = v
      /\ \A k \in 1 .. depth(t) : stack'[t][k] = stack[t][k]
  BY <1>2, <1>3 DEF depth
<1>5. \A d, kinds : UnderWay(d, kinds) => UnderWay(d, kinds)'
  <2> SUFFICES ASSUME NEW d, NEW kinds, NEW u \in Threads, NEW k \in 1 .. depth(u),
                      stack[u][k].contract = d, stack[u][k].kind \in kinds
               PROVE  UnderWay(d, kinds)'
    BY DEF UnderWay
  <2>1. k \in 1 .. depth(u)' /\ stack'[u][k] = stack[u][k]
    BY <1>2, <1>3, <1>4 DEF depth
  <2>. QED
    BY <2>1 DEF UnderWay
<1>6. \A kinds : kind \in kinds => UnderWay(c, kinds)'
  BY <1>2, <1>4 DEF UnderWay
<1>7. visited' = visited \cup {c} /\ requested' = requested \ {c} /\ released' = released
  BY DEF Begin
<1>. QED
  BY <1>5, <1>6, <1>7 DEF NoneStrandedByExceptions

LEMMA EndStrandsNone ==
  ASSUME TInv, NoneStrandedByExceptions,
         NEW t \in Threads, EndRun(t) \/ EndRelease(t)
  PROVE  NoneStrandedByExceptions'
<1> DEFINE c == Top(t).contract
           n == depth(t)
<1>1. n \in Nat \ {0} /\ stack[t] \in Seq(Visits)
  BY DEF EndRun, EndRelease, TInv, TypeOK, depth
<1>2. stack'[t] = Front(stack[t]) /\ \A u \in Threads \ {t} : stack'[u] = stack[u]
  BY DEF EndRun, EndRelease, TInv, TypeOK
<1>3. depth(t)' = n - 1 /\ \A k \in 1 .. n - 1 : stack'[t][k] = stack[t][k]
  BY <1>1, <1>2 DEF depth, Front
<1>4. \A d, kinds : d # c /\ UnderWay(d, kinds) => UnderWay(d, kinds)'
  <2> SUFFICES ASSUME NEW d, NEW kinds, d # c,
                      NEW u \in Threads, NEW k \in 1 .. depth(u),
                      stack[u][k].contract = d, stack[u][k].kind \in kinds
               PROVE  UnderWay(d, kinds)'
    BY DEF UnderWay
  <2>1. ~(u = t /\ k = n)
    BY DEF Top
  <2>2. k \in 1 .. depth(u)' /\ stack'[u][k] = stack[u][k]
    <3>1. CASE u = t
      BY <1>1, <1>3, <2>1, <3>1
    <3>2. CASE u # t
      BY <1>2, <3>2 DEF depth
    <3>. QED
      BY <3>1, <3>2
  <2>. QED
    BY <2>2 DEF UnderWay
<1>5. CASE EndRun(t)
  <2>1. visited' = visited \ {c} /\ requested' = requested /\ released' = released
    BY <1>5 DEF EndRun
  <2>2. ~UnderWay(c, {"release"})
    <3> SUFFICES ASSUME NEW u \in Threads, NEW k \in 1 .. depth(u),
                        stack[u][k].contract = c, stack[u][k].kind = "release"
                 PROVE  FALSE
      BY DEF UnderWay
    <3>1. u = t /\ k = n
      BY <1>1 DEF TInv, OwnersInv, Top
    <3>. QED
      BY <1>5, <3>1 DEF EndRun, Top
  <2>. QED
    BY <1>4, <2>1, <2>2 DEF NoneStrandedByExceptions
<1>6. CASE EndRelease(t)
  <2>1. visited' = visited \ {c} /\ requested' = requested \ {c} /\ released' = released \ {c}
    BY <1>6 DEF EndRelease
  <2>. QED
    BY <1>4, <2>1 DEF NoneStrandedByExceptions
<1>. QED
  BY <1>5, <1>6

(* However callbacks end, every visit that began ends: an execute flag is  *)
(* not left set, and a contract that was released is erased.               *)
THEOREM NoneStranded == Spec => []NoneStrandedByExceptions
<1>1. Init => NoneStrandedByExceptions
  BY DEF Init, NoneStrandedByExceptions
<1>2. ASSUME TInv, NoneStrandedByExceptions, [Next]_vars
      PROVE  NoneStrandedByExceptions'
  <2> USE <1>2
  <2>1. ASSUME NEW t \in Threads, NEW c \in Contracts, Begin(t, c)
        PROVE  NoneStrandedByExceptions'
    BY <2>1, BeginStrandsNone
  <2>2. ASSUME NEW t \in Threads, EndRun(t) \/ EndRelease(t)
        PROVE  NoneStrandedByExceptions'
    BY <2>2, EndStrandsNone
  <2>3. ASSUME NEW t \in Threads, MakeGuard(t) PROVE NoneStrandedByExceptions'
    <3>1. TopBecomes(t, tls[t], "callback") /\ UNCHANGED <<visited, requested, released>>
      BY <2>3, MakeGuardMovesTop DEF TInv, MakeGuard
    <3>. QED
      BY <3>1, MoveStrandsNone
  <2>4. ASSUME NEW t \in Threads, NEW s \in Steps, depth(t) > 0, Goto(t, s),
               UNCHANGED <<visited, requested, released>>
        PROVE  NoneStrandedByExceptions'
    BY <2>4, GotoMovesTop, MoveStrandsNone DEF TInv
  <2>5. ASSUME NEW t \in Threads, DestroyGuard(t) PROVE NoneStrandedByExceptions'
    BY <2>4, <2>5 DEF DestroyGuard, Steps
  <2>6. ASSUME NEW t \in Threads, Throw(t) \/ Return(t) \/ Escape(t)
        PROVE  NoneStrandedByExceptions'
    BY <2>4, <2>6 DEF Throw, Return, Escape, InCallback, Steps
  <2>7. ASSUME UNCHANGED <<stack, visited>>, released' \ requested' \subseteq released \ requested
        PROVE  NoneStrandedByExceptions'
    <3>1. \A c, kinds : UnderWay(c, kinds)' <=> UnderWay(c, kinds)
      BY <2>7 DEF UnderWay, depth
    <3>. QED
      BY <2>7, <3>1 DEF NoneStrandedByExceptions
  <2>8. ASSUME NEW t \in Threads, ThisSchedule(t) \/ ThisRelease(t)
        PROVE  NoneStrandedByExceptions'
    BY <2>7, <2>8 DEF ThisSchedule, ThisRelease
  <2>9. ASSUME NEW c \in Contracts, ClientRequest(c) PROVE NoneStrandedByExceptions'
    BY <2>7, <2>9 DEF ClientRequest
  <2>10. CASE UNCHANGED vars
    BY <2>7, <2>10 DEF vars
  <2>. QED
    BY <2>1, <2>2, <2>3, <2>5, <2>6, <2>8, <2>9, <2>10 DEF Next
<1>. QED
  BY <1>1, <1>2, StacksInvariant, PTL DEF Spec
=============================================================================
