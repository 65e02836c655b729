------------------------------ MODULE QueueLemmas ------------------------------
(* What the steps of a queue do to the elements it holds: RPUSH or LPUSH at  *)
(* an end, and a pop at the other.                                          *)
EXTENDS Naturals, Sequences, Functions, TLAPS

(* An element that is appended is in the queue, and if it was not before,   *)
(* it is there once.                                                        *)
LEMMA AppendElement ==
    ASSUME NEW S, NEW q \in Seq(S), NEW x \in S
    PROVE  /\ Range(Append(q, x)) = Range(q) \cup {x}
           /\ IsInjective(q) /\ x \notin Range(q) => IsInjective(Append(q, x))
<1>1. /\ DOMAIN q = 1..Len(q) /\ Len(q) \in Nat
      /\ DOMAIN Append(q, x) = 1..(Len(q) + 1)
      /\ \A k \in 1..Len(q) : Append(q, x)[k] = q[k]
      /\ Append(q, x)[Len(q) + 1] = x
  OBVIOUS
<1>2. \A k \in 1..(Len(q) + 1) : k \in 1..Len(q) \/ k = Len(q) + 1
  BY <1>1
<1>3. Len(q) + 1 \in 1..(Len(q) + 1) /\ 1..Len(q) \subseteq 1..(Len(q) + 1)
  BY <1>1
<1> QED BY <1>1, <1>2, <1>3, Zenon DEF Range, IsInjective

(* The element that is popped was in the queue; if there was no second one  *)
(* like it, it is no longer there.                                          *)
LEMMA TailRange ==
    ASSUME NEW S, NEW q \in Seq(S), q # <<>>
    PROVE  Range(Tail(q)) \subseteq Range(q) /\ Head(q) \in Range(q)
<1>1. /\ DOMAIN q = 1..Len(q) /\ Len(q) \in Nat /\ Len(q) >= 1
      /\ DOMAIN Tail(q) = 1..(Len(q) - 1)
      /\ \A k \in 1..(Len(q) - 1) : Tail(q)[k] = q[k + 1]
      /\ Head(q) = q[1]
  OBVIOUS
<1>2. ASSUME NEW k \in DOMAIN Tail(q) PROVE Tail(q)[k] \in Range(q)
  <2>1. k + 1 \in DOMAIN q /\ Tail(q)[k] = q[k + 1]
    BY <1>1, <1>2
  <2> QED BY <2>1 DEF Range
<1> QED BY <1>1, <1>2 DEF Range

LEMMA TailElements ==
    ASSUME NEW S, NEW q \in Seq(S), q # <<>>
    PROVE  /\ Head(q) \in Range(q)
           /\ IsInjective(q) => /\ IsInjective(Tail(q))
                             /\ Range(Tail(q)) = Range(q) \ {Head(q)}
<1>1. /\ DOMAIN q = 1..Len(q) /\ Len(q) \in Nat /\ Len(q) >= 1
      /\ DOMAIN Tail(q) = 1..(Len(q) - 1)
      /\ \A k \in 1..(Len(q) - 1) : Tail(q)[k] = q[k + 1]
      /\ Head(q) = q[1]
  OBVIOUS
<1>2. Head(q) \in Range(q)
  BY <1>1 DEF Range
<1>3. ASSUME IsInjective(q) PROVE IsInjective(Tail(q))
  BY <1>1, <1>3 DEF IsInjective
<1>4. ASSUME IsInjective(q) PROVE Range(Tail(q)) = Range(q) \ {Head(q)}
  <2>1. ASSUME NEW k \in 1..(Len(q) - 1)
        PROVE  k + 1 \in 1..Len(q) /\ k + 1 # 1
    BY <1>1
  <2>2. ASSUME NEW k \in 1..Len(q), k # 1
        PROVE  k - 1 \in 1..(Len(q) - 1) /\ Tail(q)[k - 1] = q[k]
    BY <1>1, <2>2
  <2>3. 1 \in 1..Len(q)
    BY <1>1
  <2>4. Range(Tail(q)) \subseteq Range(q) \ {Head(q)}
    <3> SUFFICES ASSUME NEW k \in 1..(Len(q) - 1)
                 PROVE  Tail(q)[k] \in Range(q) \ {Head(q)}
      BY <1>1 DEF Range
    <3>1. Tail(q)[k] = q[k + 1] /\ k + 1 \in DOMAIN q /\ 1 \in DOMAIN q /\ k + 1 # 1
      BY <1>1, <2>1, <2>3
    <3>2. q[k + 1] # q[1]
      BY <1>4, <3>1 DEF IsInjective
    <3> QED BY <1>1, <3>1, <3>2 DEF Range
  <2>5. Range(q) \ {Head(q)} \subseteq Range(Tail(q))
    <3> SUFFICES ASSUME NEW k \in 1..Len(q), q[k] # Head(q)
                 PROVE  q[k] \in Range(Tail(q))
      BY <1>1 DEF Range
    <3>1. k - 1 \in DOMAIN Tail(q) /\ Tail(q)[k - 1] = q[k]
      BY <1>1, <2>2
    <3> QED BY <3>1 DEF Range
  <2> QED BY <2>4, <2>5
<1> QED BY <1>2, <1>3, <1>4

(* What is put back in front is in the queue again.                         *)
LEMMA FrontElement ==
    ASSUME NEW S, NEW q \in Seq(S), NEW x \in S
    PROVE  /\ Range(<<x>> \o q) = Range(q) \cup {x}
           /\ IsInjective(q) /\ x \notin Range(q) => IsInjective(<<x>> \o q)
<1> DEFINE r == <<x>> \o q
<1>1. /\ DOMAIN q = 1..Len(q) /\ Len(q) \in Nat
      /\ DOMAIN r = 1..(Len(q) + 1) /\ r[1] = x
      /\ \A k \in 1..Len(q) : r[k + 1] = q[k]
  OBVIOUS
<1>2. \A k \in 1..(Len(q) + 1) : k = 1 \/ (k - 1 \in 1..Len(q) /\ r[k] = q[k - 1])
  BY <1>1
<1>3. 1 \in 1..(Len(q) + 1) /\ \A k \in 1..Len(q) : k + 1 \in 1..(Len(q) + 1)
  BY <1>1
<1> HIDE DEF r
<1>4. Range(r) = Range(q) \cup {x}
  <2>1. x \in Range(r) /\ Range(q) \subseteq Range(r)
    <3>1. x = r[1] /\ 1 \in DOMAIN r
      BY <1>1, <1>3
    <3>2. ASSUME NEW k \in DOMAIN q PROVE q[k] = r[k + 1] /\ k + 1 \in DOMAIN r
      BY <1>1, <1>3, <3>2
    <3> QED BY <3>1, <3>2 DEF Range
  <2>2. Range(r) \subseteq Range(q) \cup {x}
    <3> SUFFICES ASSUME NEW k \in DOMAIN r PROVE r[k] \in Range(q) \cup {x}
      BY DEF Range
    <3>1. k = 1 \/ (k - 1 \in DOMAIN q /\ r[k] = q[k - 1])
      BY <1>1, <1>2
    <3> QED BY <1>1, <3>1 DEF Range
  <2> QED BY <2>1, <2>2
<1>5. ASSUME IsInjective(q), x \notin Range(q) PROVE IsInjective(r)
  <2>1. SUFFICES ASSUME NEW k \in 1..(Len(q) + 1), NEW l \in 1..(Len(q) + 1), r[k] = r[l]
                 PROVE  k = l
    BY <1>1 DEF IsInjective
  <2>2. \A m \in 1..Len(q) : q[m] # x
    BY <1>1, <1>5 DEF Range
  <2>3. CASE k = 1 \/ l = 1
    BY <1>1, <1>2, <2>1, <2>2, <2>3
  <2>4. CASE k # 1 /\ l # 1
    <3>1. /\ k - 1 \in DOMAIN q /\ l - 1 \in DOMAIN q
          /\ q[k - 1] = q[l - 1]
      BY <1>1, <1>2, <2>1, <2>4
    <3>2. k - 1 = l - 1
      BY <1>5, <3>1 DEF IsInjective
    <3> QED BY <1>1, <3>2
  <2> QED BY <2>3, <2>4
<1> QED BY <1>4, <1>5 DEF r
===============================================================================
