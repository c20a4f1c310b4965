------------------------ MODULE FrequencyCapsProofs ------------------------
(***************************************************************************)
(* The bound on the sends of a window, for any number of consumers, any    *)
(* caps above one, any windows, types and channels, and any number of      *)
(* events and faults.                                                      *)
(***************************************************************************)
EXTENDS FrequencyCaps, FiniteSetTheorems, WellFoundedInduction, TLAPS

-----------------------------------------------------------------------------
(***************************************************************************)
(* The law of one key                                                      *)
(*                                                                         *)
(* C is its cap, W its window, g the ages of its checked sends, n its      *)
(* counter and x the ticks the counter has left; r is the number of faults *)
(* that may have left a send uncounted, and p is how many consumers have a *)
(* send to come that found the counter below its cap.                      *)
(***************************************************************************)

Crowd == Cardinality(Consumers)

\* The ages are those of one window, oldest first.
Aged(W, g) ==
    /\ g \in Seq(Nat)
    /\ \A i \in 1..Len(g) : g[i] < W
    /\ \A i, j \in 1..Len(g) : i <= j => g[i] >= g[j]

\* The cooldown restarts with every send that is counted: s sends apart, they
\* are those that found it unset together, and none once it has run out.
Cool(W, g, n, x, r, p) ==
    \E s \in 0..r :
       /\ Len(g) + p <= s + Crowd
       /\ x = 0 => Len(g) <= s
       /\ x > 0 => n > 0 /\ \A i \in 1..Len(g) : i + s <= Len(g) => g[i] >= W - x

\* No window is open: the one that opened the last window has grown too old.
Shut(C, g, r) == \E s \in 0..r : Len(g) <= C + Crowd - 2 + s

\* A window is open since W - x ticks: j sends are older, the others were
\* counted in it, s and u of them not.  Either the send that opened it is among
\* the others, or something else has taken its place in the counter.
Opener(W, g, x, j) == j < Len(g) /\ g[j + 1] >= W - x
OpenAt(C, W, g, n, x, p, j, s, u) ==
    /\ j <= C + Crowd - 2 + s
    /\ \A i \in 1..j : g[i] >= W - x
    /\ \A i \in (j + 1)..Len(g) : g[i] <= W - x
    /\ Len(g) - j <= n + u /\ Len(g) - j + p <= C + Crowd - 1 + u
    /\ Opener(W, g, x, j) \/ (Len(g) - j + 1 <= n + u /\ Len(g) - j + p <= C + Crowd - 2 + u)
Open(C, W, g, n, x, r, p) ==
    \E j \in 0..Len(g) : \E s \in 0..r : \E u \in 0..r : s + u <= r /\ OpenAt(C, W, g, n, x, p, j, s, u)

Law(cool, C, W, g, n, x, r, p) ==
    /\ Aged(W, g) /\ x <= W
    /\ cool => Cool(W, g, n, x, r, p)
    /\ ~cool /\ x = 0 => Shut(C, g, r)
    /\ ~cool /\ x > 0 => Open(C, W, g, n, x, r, p)

\* What a lemma about the law knows of its arguments.
Given(cool, C, W, g, n, x, r, p) ==
    /\ cool \in BOOLEAN /\ C \in Nat /\ W \in Nat \ {0} /\ n \in Nat /\ x \in Nat /\ r \in Int
    /\ Crowd \in Nat \ {0} /\ p \in 0..Crowd
    /\ cool => C = 1
    /\ ~cool => C > 1
    /\ Law(cool, C, W, g, n, x, r, p)

\* The law bounds the sends of a window.
LEMMA LawBounds ==
    ASSUME NEW cool, NEW C, NEW W, NEW g, NEW n, NEW x, NEW r, NEW p,
           Given(cool, C, W, g, n, x, r, p)
    PROVE  Len(g) <= r + (IF cool THEN Crowd ELSE 2 * (C + Crowd - 1) - 1)
<1>1. /\ Len(g) \in Nat /\ Crowd \in Nat \ {0} /\ C \in Nat /\ r \in Int /\ p \in Nat
      /\ cool \in BOOLEAN /\ x \in Nat /\ (~cool => C > 1)
  BY DEF Given, Law, Aged
<1>2. CASE cool
  <2>1. PICK s \in 0..r : Len(g) + p <= s + Crowd BY <1>2 DEF Given, Law, Cool
  <2> QED BY <1>1, <1>2, <2>1
<1>3. CASE ~cool /\ x = 0
  <2>1. PICK s \in 0..r : Len(g) <= C + Crowd - 2 + s BY <1>3 DEF Given, Law, Shut
  <2> QED BY <1>1, <1>3, <2>1
<1>4. CASE ~cool /\ x > 0
  <2>1. PICK j \in 0..Len(g) : \E s \in 0..r : \E u \in 0..r : s + u <= r /\ OpenAt(C, W, g, n, x, p, j, s, u)
    BY <1>4 DEF Given, Law, Open
  <2>2. PICK s \in 0..r, u \in 0..r : s + u <= r /\ OpenAt(C, W, g, n, x, p, j, s, u) BY <2>1
  <2>3. j <= C + Crowd - 2 + s /\ Len(g) - j + p <= C + Crowd - 1 + u BY <2>2 DEF OpenAt
  <2>4. s + u <= r BY <2>2
  <2> QED BY <1>1, <1>4, <2>3, <2>4
<1> QED BY <1>1, <1>2, <1>3, <1>4

\* Nothing is sent for the key: its counter may grow without its expiry, a fault
\* may be added, and a send that was to come may be dropped, or announced while
\* the counter is below the cap.
LEMMA LawKept ==
    ASSUME NEW cool, NEW C, NEW W, NEW g, NEW n, NEW x, NEW r, NEW p,
           Given(cool, C, W, g, n, x, r, p),
           NEW n2 \in Nat, n2 >= n,
           NEW r2 \in Int, r2 >= r,
           NEW p2 \in 0..Crowd, p2 <= p \/ n < C
    PROVE  Law(cool, C, W, g, n2, x, r2, p2)
<1>1. /\ Len(g) \in Nat /\ Aged(W, g) /\ x <= W /\ n \in Nat /\ x \in Nat /\ C \in Nat
      /\ r \in Int /\ Crowd \in Nat \ {0} /\ p \in Nat /\ p2 \in Nat /\ p2 <= Crowd
  BY DEF Given, Law, Aged
<1>2. ASSUME cool PROVE Cool(W, g, n2, x, r2, p2)
  <2>1. PICK s \in 0..r : /\ Len(g) + p <= s + Crowd
                          /\ x = 0 => Len(g) <= s
                          /\ x > 0 => n > 0 /\ \A i \in 1..Len(g) : i + s <= Len(g) => g[i] >= W - x
    BY <1>2 DEF Given, Law, Cool
  <2>2. s \in 0..r2 BY <1>1
  <2>3. Len(g) + p2 <= s + Crowd
    <3>1. CASE p2 <= p BY <1>1, <2>1, <3>1
    <3>2. CASE n < C
      <4>1. C = 1 BY <1>2 DEF Given
      <4>2. x = 0 BY <1>1, <2>1, <3>2, <4>1
      <4> QED BY <1>1, <2>1, <4>2
    <3> QED BY <3>1, <3>2
  <2>4. x > 0 => n2 > 0 BY <1>1, <2>1
  <2> QED BY <2>1, <2>2, <2>3, <2>4 DEF Cool
<1>3. ASSUME ~cool, x = 0 PROVE Shut(C, g, r2)
  <2>1. PICK s \in 0..r : Len(g) <= C + Crowd - 2 + s BY <1>3 DEF Given, Law, Shut
  <2>2. s \in 0..r2 BY <1>1
  <2> QED BY <2>1, <2>2 DEF Shut
<1>4. ASSUME ~cool, x > 0 PROVE Open(C, W, g, n2, x, r2, p2)
  <2>1. PICK j \in 0..Len(g) : \E s \in 0..r : \E u \in 0..r : s + u <= r /\ OpenAt(C, W, g, n, x, p, j, s, u)
    BY <1>4 DEF Given, Law, Open
  <2>2. PICK s \in 0..r, u \in 0..r : s + u <= r /\ OpenAt(C, W, g, n, x, p, j, s, u) BY <2>1
  <2>3. s \in 0..r2 /\ u \in 0..r2 /\ s + u <= r2 BY <1>1, <2>2
  <2>4. OpenAt(C, W, g, n2, x, p2, j, s, u)
    <3> DEFINE sends == Len(g) - j
    <3>1. sends <= n + u /\ sends + p <= C + Crowd - 1 + u BY <2>2 DEF OpenAt
    <3>2. Opener(W, g, x, j) \/ (sends + 1 <= n + u /\ sends + p <= C + Crowd - 2 + u) BY <2>2 DEF OpenAt
    <3>3. sends \in Int /\ u \in Int BY <1>1
    <3> HIDE DEF sends
    <3>4. sends <= n2 + u /\ sends + p2 <= C + Crowd - 1 + u BY <1>1, <3>1, <3>3
    <3>5. Opener(W, g, x, j) \/ (sends + 1 <= n2 + u /\ sends + p2 <= C + Crowd - 2 + u)
      BY <1>1, <3>2, <3>3
    <3> QED BY <2>2, <3>4, <3>5 DEF OpenAt, sends
  <2> QED BY <2>3, <2>4 DEF Open
<1> QED BY <1>1, <1>2, <1>3, <1>4 DEF Law

\* The youngest send comes last.
LEMMA AgedAppend ==
    ASSUME NEW W \in Nat \ {0}, NEW g, Aged(W, g)
    PROVE  /\ Aged(W, Append(g, 0)) /\ Len(g) \in Nat /\ Len(Append(g, 0)) = Len(g) + 1
           /\ \A i \in 1..Len(g) : Append(g, 0)[i] = g[i]
           /\ Append(g, 0)[Len(g) + 1] = 0
<1> DEFINE h == Append(g, 0)
<1>1. g \in Seq(Nat) /\ Len(g) \in Nat /\ h \in Seq(Nat) /\ Len(h) = Len(g) + 1 BY DEF Aged
<1>2. (\A i \in 1..Len(g) : h[i] = g[i]) /\ h[Len(g) + 1] = 0 BY <1>1
<1>3. \A i \in 1..Len(g) : g[i] \in Nat BY <1>1
<1>4. \A i \in 1..Len(h) : i \in 1..Len(g) \/ i = Len(g) + 1 BY <1>1
<1>5. \A i \in 1..Len(g) : g[i] < W BY DEF Aged
<1>6. \A i, j \in 1..Len(g) : i <= j => g[i] >= g[j] BY DEF Aged
<1> HIDE DEF h
<1>7. \A i \in 1..Len(h) : h[i] < W BY <1>1, <1>2, <1>4, <1>5
<1>8. ASSUME NEW i \in 1..Len(h), NEW j \in 1..Len(h), i <= j PROVE h[i] >= h[j]
  <2>1. CASE j = Len(g) + 1 BY <1>2, <1>3, <1>4, <2>1
  <2>2. CASE j \in 1..Len(g) /\ i \in 1..Len(g) BY <1>2, <1>6, <1>8, <2>2
  <2>3. CASE j \in 1..Len(g) /\ i = Len(g) + 1 BY <1>1, <1>8, <2>3
  <2> QED BY <1>4, <2>1, <2>2, <2>3
<1>9. Aged(W, h) BY <1>1, <1>7, <1>8 DEF Aged
<1> QED BY <1>1, <1>2, <1>9 DEF h

\* A send that had passed the check is made and counted.
LEMMA LawCounted ==
    ASSUME NEW cool, NEW C, NEW W, NEW g, NEW n, NEW x, NEW r, NEW p,
           Given(cool, C, W, g, n, x, r, p), p >= 1,
           NEW r2 \in Int, r2 >= r
    PROVE  Law(cool, C, W, Append(g, 0), IF cool THEN 1 ELSE n + 1, IF cool \/ x = 0 THEN W ELSE x, r2, p - 1)
<1> DEFINE h == Append(g, 0)
           n2 == IF cool THEN 1 ELSE n + 1
           x2 == IF cool \/ x = 0 THEN W ELSE x
<1>0. /\ Aged(W, g) /\ x <= W /\ W \in Nat \ {0} /\ x \in Nat /\ n \in Nat /\ r \in Int /\ C \in Nat
      /\ Crowd \in Nat \ {0} /\ p \in Nat \ {0} /\ p <= Crowd
  BY DEF Given, Law
<1>1. Aged(W, h) /\ Len(g) \in Nat /\ Len(h) = Len(g) + 1 BY <1>0, AgedAppend
<1>2. \A i \in 1..Len(g) : h[i] = g[i] BY <1>0, AgedAppend
<1>3. h[Len(g) + 1] = 0 BY <1>0, AgedAppend
<1>4. \A i \in 1..Len(h) : h[i] \in Nat BY <1>1 DEF Aged
<1> HIDE DEF h
<1>5. ASSUME cool PROVE Cool(W, h, n2, x2, r2, p - 1)
  <2>1. PICK s \in 0..r : Len(g) + p <= s + Crowd BY <1>5 DEF Given, Law, Cool
  <2>2. s \in 0..r2 BY <1>0
  <2>3. Len(h) + (p - 1) <= s + Crowd BY <1>0, <1>1, <2>1
  <2>4. x2 = W /\ n2 = 1 BY <1>5
  <2>5. \A i \in 1..Len(h) : h[i] >= W - W BY <1>0, <1>4
  <2> HIDE DEF x2, n2
  <2>6. ~(x2 = 0) /\ n2 > 0 /\ \A i \in 1..Len(h) : h[i] >= W - x2 BY <1>0, <2>4, <2>5
  <2> QED BY <2>2, <2>3, <2>6 DEF Cool
<1>6. ASSUME ~cool, x = 0 PROVE Open(C, W, h, n2, x2, r2, p - 1)
  <2>1. PICK s \in 0..r : Len(g) <= C + Crowd - 2 + s BY <1>6 DEF Given, Law, Shut
  <2>2. x2 = W /\ n2 = n + 1 BY <1>6
  <2> HIDE DEF x2, n2
  <2>3. s \in 0..r2 /\ 0 \in 0..r2 /\ s + 0 <= r2 /\ Len(g) \in 0..Len(h) BY <1>0, <1>1
  <2>4. OpenAt(C, W, h, n2, x2, p - 1, Len(g), s, 0)
    <3>1. \A i \in 1..Len(g) : h[i] >= W - x2 BY <1>0, <1>1, <1>4, <2>2
    <3>2. \A i \in (Len(g) + 1)..Len(h) : h[i] <= W - x2
      <4>1. \A i \in (Len(g) + 1)..Len(h) : i = Len(g) + 1 BY <1>1
      <4> QED BY <1>0, <1>3, <2>2, <4>1
    <3>3. Opener(W, h, x2, Len(g)) BY <1>0, <1>1, <1>3, <2>2 DEF Opener
    <3>4. Len(h) - Len(g) = 1 BY <1>1
    <3>5. Len(h) - Len(g) <= n2 + 0 /\ Len(h) - Len(g) + (p - 1) <= C + Crowd - 1 + 0
      <4>1. C > 1 BY <1>6 DEF Given
      <4> QED BY <1>0, <2>2, <3>4, <4>1
    <3> QED BY <2>1, <3>1, <3>2, <3>3, <3>5 DEF OpenAt
  <2> QED BY <2>3, <2>4 DEF Open
<1>7. ASSUME ~cool, x > 0 PROVE Open(C, W, h, n2, x2, r2, p - 1)
  <2>1. PICK j \in 0..Len(g) : \E s \in 0..r : \E u \in 0..r : s + u <= r /\ OpenAt(C, W, g, n, x, p, j, s, u)
    BY <1>7 DEF Given, Law, Open
  <2>2. PICK s \in 0..r, u \in 0..r : s + u <= r /\ OpenAt(C, W, g, n, x, p, j, s, u) BY <2>1
  <2>3. s \in 0..r2 /\ u \in 0..r2 /\ s + u <= r2 BY <1>0, <2>2
  <2>4. x2 = x /\ n2 = n + 1 BY <1>0, <1>7
  <2> HIDE DEF x2, n2
  <2>5. OpenAt(C, W, h, n2, x2, p - 1, j, s, u)
    <3>1. \A i \in 1..j : h[i] >= W - x2
      <4>1. \A i \in 1..j : i \in 1..Len(g) /\ g[i] >= W - x BY <1>1, <2>1, <2>2 DEF OpenAt
      <4> QED BY <1>2, <2>4, <4>1
    <3>2. \A i \in (j + 1)..Len(h) : h[i] <= W - x2
      <4>1. \A i \in (j + 1)..Len(h) : (i \in 1..Len(g) /\ i \in (j + 1)..Len(g)) \/ i = Len(g) + 1 BY <1>1, <2>1
      <4>2. \A i \in (j + 1)..Len(g) : g[i] <= W - x BY <2>2 DEF OpenAt
      <4>3. 0 <= W - x BY <1>0
      <4> QED BY <1>2, <1>3, <2>4, <4>1, <4>2, <4>3
    <3>3. Len(h) - j <= n2 + u /\ Len(h) - j + (p - 1) <= C + Crowd - 1 + u
      BY <1>0, <1>1, <2>1, <2>2, <2>4 DEF OpenAt
    <3>4. Opener(W, g, x, j) => Opener(W, h, x2, j)
      <4>1. j < Len(g) => j + 1 \in 1..Len(g) BY <1>1, <2>1
      <4> QED BY <1>1, <1>2, <2>1, <2>4, <4>1 DEF Opener
    <3>5. ~Opener(W, g, x, j) => Len(h) - j + 1 <= n2 + u /\ Len(h) - j + (p - 1) <= C + Crowd - 2 + u
      BY <1>0, <1>1, <2>1, <2>2, <2>4 DEF OpenAt
    <3> QED BY <2>2, <3>1, <3>2, <3>3, <3>4, <3>5 DEF OpenAt
  <2>6. j \in 0..Len(h) BY <1>1, <2>1
  <2> QED BY <2>3, <2>5, <2>6 DEF Open
<1>8. x2 <= W /\ (~cool => ~(x2 = 0)) BY <1>0
<1>9. cool => ~(x2 = 0) BY <1>0
<1>10. cool \in BOOLEAN BY DEF Given
<1> HIDE DEF x2, n2
<1>11. Law(cool, C, W, h, n2, x2, r2, p - 1)
  <2>1. ~cool => x = 0 \/ x > 0 BY <1>0
  <2> QED BY <1>1, <1>5, <1>6, <1>7, <1>8, <1>9, <2>1 DEF Law
<1> QED BY <1>11 DEF h, n2, x2

\* A send that had passed the check is made, and a fault leaves it uncounted, or
\* the expiry of its counter unset.
LEMMA LawUncounted ==
    ASSUME NEW cool, NEW C, NEW W, NEW g, NEW n, NEW x, NEW r, NEW p,
           Given(cool, C, W, g, n, x, r, p), p >= 1,
           NEW n2 \in Nat, n2 >= n,
           NEW r2 \in Int, r2 > r
    PROVE  Law(cool, C, W, Append(g, 0), n2, x, r2, p - 1)
<1> DEFINE h == Append(g, 0)
<1>0. /\ Aged(W, g) /\ x <= W /\ W \in Nat \ {0} /\ x \in Nat /\ n \in Nat /\ r \in Int /\ C \in Nat
      /\ Crowd \in Nat \ {0} /\ p \in Nat \ {0} /\ p <= Crowd
  BY DEF Given, Law
<1>1. Aged(W, h) /\ Len(g) \in Nat /\ Len(h) = Len(g) + 1 BY <1>0, AgedAppend
<1>2. \A i \in 1..Len(g) : h[i] = g[i] BY <1>0, AgedAppend
<1>3. h[Len(g) + 1] = 0 BY <1>0, AgedAppend
<1> HIDE DEF h
<1>5. ASSUME cool PROVE Cool(W, h, n2, x, r2, p - 1)
  <2>1. PICK s \in 0..r : /\ Len(g) + p <= s + Crowd
                          /\ x = 0 => Len(g) <= s
                          /\ x > 0 => n > 0 /\ \A i \in 1..Len(g) : i + s <= Len(g) => g[i] >= W - x
    BY <1>5 DEF Given, Law, Cool
  <2>2. s + 1 \in 0..r2 BY <1>0
  <2>3. Len(h) + (p - 1) <= (s + 1) + Crowd /\ (x = 0 => Len(h) <= s + 1) BY <1>0, <1>1, <2>1
  <2>4. x > 0 => n2 > 0 BY <1>0, <2>1
  <2>5. ASSUME x > 0, NEW i \in 1..Len(h), i + (s + 1) <= Len(h) PROVE h[i] >= W - x
    <3>1. i \in 1..Len(g) /\ i + s <= Len(g) BY <1>1, <2>5
    <3>2. g[i] >= W - x BY <2>1, <2>5, <3>1
    <3> QED BY <1>2, <3>1, <3>2
  <2> QED BY <2>2, <2>3, <2>4, <2>5 DEF Cool
<1>6. ASSUME ~cool, x = 0 PROVE Shut(C, h, r2)
  <2>1. PICK s \in 0..r : Len(g) <= C + Crowd - 2 + s BY <1>6 DEF Given, Law, Shut
  <2>2. s + 1 \in 0..r2 /\ Len(h) <= C + Crowd - 2 + (s + 1) BY <1>0, <1>1, <2>1
  <2> QED BY <2>2 DEF Shut
<1>7. ASSUME ~cool, x > 0 PROVE Open(C, W, h, n2, x, r2, p - 1)
  <2>1. PICK j \in 0..Len(g) : \E s \in 0..r : \E u \in 0..r : s + u <= r /\ OpenAt(C, W, g, n, x, p, j, s, u)
    BY <1>7 DEF Given, Law, Open
  <2>2. PICK s \in 0..r, u \in 0..r : s + u <= r /\ OpenAt(C, W, g, n, x, p, j, s, u) BY <2>1
  <2>3. s \in 0..r2 /\ u + 1 \in 0..r2 /\ s + (u + 1) <= r2 BY <1>0, <2>2
  <2>5. OpenAt(C, W, h, n2, x, p - 1, j, s, u + 1)
    <3>1. \A i \in 1..j : h[i] >= W - x
      <4>1. \A i \in 1..j : i \in 1..Len(g) /\ g[i] >= W - x BY <1>1, <2>1, <2>2 DEF OpenAt
      <4> QED BY <1>2, <4>1
    <3>2. \A i \in (j + 1)..Len(h) : h[i] <= W - x
      <4>1. \A i \in (j + 1)..Len(h) : (i \in 1..Len(g) /\ i \in (j + 1)..Len(g)) \/ i = Len(g) + 1 BY <1>1, <2>1
      <4>2. \A i \in (j + 1)..Len(g) : g[i] <= W - x BY <2>2 DEF OpenAt
      <4>3. 0 <= W - x BY <1>0
      <4> QED BY <1>2, <1>3, <4>1, <4>2, <4>3
    <3>3. Len(h) - j <= n2 + (u + 1) /\ Len(h) - j + (p - 1) <= C + Crowd - 1 + (u + 1)
      BY <1>0, <1>1, <2>1, <2>2 DEF OpenAt
    <3>4. Opener(W, g, x, j) => Opener(W, h, x, j)
      <4>1. j < Len(g) => j + 1 \in 1..Len(g) BY <1>1, <2>1
      <4> QED BY <1>1, <1>2, <2>1, <4>1 DEF Opener
    <3>5. ~Opener(W, g, x, j) => Len(h) - j + 1 <= n2 + (u + 1) /\ Len(h) - j + (p - 1) <= C + Crowd - 2 + (u + 1)
      BY <1>0, <1>1, <2>1, <2>2 DEF OpenAt
    <3> QED BY <2>2, <3>1, <3>2, <3>3, <3>4, <3>5 DEF OpenAt
  <2>6. j \in 0..Len(h) BY <1>1, <2>1
  <2> QED BY <2>3, <2>5, <2>6 DEF Open
<1>11. Law(cool, C, W, h, n2, x, r2, p - 1) BY <1>0, <1>1, <1>5, <1>6, <1>7 DEF Law
<1> QED BY <1>11 DEF h

\* Something is counted that is no checked send: a release, a critical event, or
\* a cap its type does not answer to.  It may open a window while sends are to
\* come, which costs that window one of the cap: hence caps above one.
LEMMA LawOtherCounted ==
    ASSUME NEW cool, NEW C, NEW W, NEW g, NEW n, NEW x, NEW r, NEW p,
           Given(cool, C, W, g, n, x, r, p),
           NEW r2 \in Int, r2 >= r,
           NEW p2 \in 0..Crowd, p2 <= p
    PROVE  Law(cool, C, W, g, IF cool THEN 1 ELSE n + 1, IF cool \/ x = 0 THEN W ELSE x, r2, p2)
<1> DEFINE n2 == IF cool THEN 1 ELSE n + 1
           x2 == IF cool \/ x = 0 THEN W ELSE x
<1>0. /\ Aged(W, g) /\ x <= W /\ W \in Nat \ {0} /\ x \in Nat /\ n \in Nat /\ r \in Int /\ C \in Nat
      /\ Crowd \in Nat \ {0} /\ p \in Nat /\ p2 \in Nat /\ p2 <= p /\ p <= Crowd /\ cool \in BOOLEAN
  BY DEF Given, Law
<1>1. Len(g) \in Nat /\ \A i \in 1..Len(g) : g[i] \in Nat BY <1>0 DEF Aged
<1>2. CASE ~cool /\ x > 0
  <2>1. x2 = x /\ n2 = n + 1 /\ n + 1 >= n /\ n + 1 \in Nat BY <1>0, <1>2
  <2>2. Law(cool, C, W, g, n + 1, x, r2, p2) BY <2>1, LawKept
  <2> QED BY <2>1, <2>2
<1>3. ASSUME cool PROVE Cool(W, g, n2, x2, r2, p2)
  <2>1. PICK s \in 0..r : Len(g) + p <= s + Crowd BY <1>3 DEF Given, Law, Cool
  <2>2. x2 = W /\ n2 = 1 BY <1>3
  <2> HIDE DEF x2, n2
  <2>3. s \in 0..r2 /\ Len(g) + p2 <= s + Crowd BY <1>0, <1>1, <2>1
  <2>4. ~(x2 = 0) /\ n2 > 0 /\ \A i \in 1..Len(g) : g[i] >= W - x2 BY <1>0, <1>1, <2>2
  <2> QED BY <2>3, <2>4 DEF Cool
<1>4. ASSUME ~cool, x = 0 PROVE Open(C, W, g, n2, x2, r2, p2)
  <2>1. PICK s \in 0..r : Len(g) <= C + Crowd - 2 + s BY <1>4 DEF Given, Law, Shut
  <2>2. x2 = W /\ n2 = n + 1 BY <1>4
  <2> HIDE DEF x2, n2
  <2>3. s \in 0..r2 /\ 0 \in 0..r2 /\ s + 0 <= r2 /\ Len(g) \in 0..Len(g) BY <1>0, <1>1
  <2>4. OpenAt(C, W, g, n2, x2, p2, Len(g), s, 0)
    <3>1. \A i \in 1..Len(g) : g[i] >= W - x2 BY <1>0, <1>1, <2>2
    <3>2. \A i \in (Len(g) + 1)..Len(g) : g[i] <= W - x2 BY <1>1
    <3>4. Len(g) - Len(g) = 0 BY <1>1
    <3>5. /\ Len(g) - Len(g) <= n2 + 0 /\ Len(g) - Len(g) + p2 <= C + Crowd - 1 + 0
          /\ Len(g) - Len(g) + 1 <= n2 + 0 /\ Len(g) - Len(g) + p2 <= C + Crowd - 2 + 0
      <4>1. C > 1 BY <1>4 DEF Given
      <4> QED BY <1>0, <2>2, <3>4, <4>1
    <3> QED BY <2>1, <3>1, <3>2, <3>5 DEF OpenAt
  <2> QED BY <2>3, <2>4 DEF Open
<1>8. x2 <= W /\ ~(x2 = 0) BY <1>0
<1> HIDE DEF x2, n2
<1>11. CASE cool \/ x = 0 BY <1>0, <1>3, <1>4, <1>8, <1>11 DEF Law, n2, x2
<1> QED BY <1>0, <1>2, <1>11 DEF n2, x2

\* A set of naturals that is not empty has a least element.
LEMMA LeastAge ==
    ASSUME NEW S, S \subseteq Nat, S # {}
    PROVE  \E m \in S : \A y \in S : m <= y
<1>1. IsWellFoundedOn({ss \in Nat \X Nat : ss[1] < ss[2]}, Nat)
  BY NatLessThanWellFounded DEF OpToRel
<1>2. PICK m \in S : \A y \in S : ~(<<y, m>> \in {ss \in Nat \X Nat : ss[1] < ss[2]})
  BY <1>1, WFMin, Zenon
<1>3. ASSUME NEW y \in S PROVE m <= y
  <2>1. <<y, m>> \notin {ss \in Nat \X Nat : ss[1] < ss[2]} BY <1>2
  <2>2. m \in Nat /\ y \in Nat /\ <<y, m>> \in Nat \X Nat OBVIOUS
  <2>3. ~(y < m) BY <2>1, <2>2
  <2> QED BY <2>2, <2>3
<1> QED BY <1>3

\* A tick cuts off the sends whose age reaches the window: the first d of them.
LEMMA AgedOlder ==
    ASSUME NEW W \in Nat \ {0}, NEW g, Aged(W, g)
    PROVE  /\ Aged(W, Older(g, W)) /\ Len(g) \in Nat
           /\ \E d \in 0..Len(g) :
                 /\ \A i \in 1..d : g[i] + 1 >= W
                 /\ \A i \in (d + 1)..Len(g) : g[i] + 1 < W
                 /\ Len(Older(g, W)) = Len(g) - d
                 /\ \A i \in 1..(Len(g) - d) : Older(g, W)[i] = g[i + d] + 1
<1>1. Len(g) \in Nat /\ \A i \in 1..Len(g) : g[i] \in Nat BY DEF Aged
<1>2. \A i, j \in 1..Len(g) : i <= j => g[i] >= g[j] BY DEF Aged
<1> DEFINE Cut(d) == \A i \in 1..Len(g) : i <= d <=> g[i] + 1 >= W
           Young == {d \in 0..Len(g) : \A i \in (d + 1)..Len(g) : g[i] + 1 < W}
<1>3. \E d \in 0..Len(g) : Cut(d)
  <2>1. Len(g) \in Young BY <1>1
  <2>2. PICK d \in Young : \A y \in Young : d <= y
    <3>1. Young \subseteq Nat BY <1>1
    <3> HIDE DEF Young
    <3> QED BY <2>1, <3>1, LeastAge
  <2>3. ASSUME NEW i \in 1..Len(g), i <= d PROVE g[i] + 1 >= W
    <3>1. SUFFICES ASSUME g[i] + 1 < W PROVE FALSE BY <1>1
    <3>2. i - 1 \in 0..Len(g) /\ i - 1 < d BY <1>1, <2>3
    <3>3. ASSUME NEW q \in (i - 1 + 1)..Len(g) PROVE g[q] + 1 < W
      <4>1. q \in 1..Len(g) /\ i <= q BY <1>1
      <4>2. g[i] >= g[q] BY <1>2, <4>1
      <4> QED BY <1>1, <3>1, <4>1, <4>2
    <3>4. i - 1 \in Young BY <3>2, <3>3
    <3>5. d <= i - 1 BY <2>2, <3>4
    <3> QED BY <1>1, <3>2, <3>5
  <2>4. ASSUME NEW i \in 1..Len(g), g[i] + 1 >= W PROVE i <= d
    <3>1. d \in 0..Len(g) /\ (i \in (d + 1)..Len(g) => g[i] + 1 < W) BY <2>2
    <3> QED BY <1>1, <2>4, <3>1
  <2>5. Cut(d) BY <2>3, <2>4
  <2> QED BY <2>2, <2>5
<1> DEFINE d == CHOOSE c \in 0..Len(g) : Cut(c)
           h == [i \in 1..(Len(g) - d) |-> g[i + d] + 1]
<1>4. d \in 0..Len(g) /\ Cut(d)
  <2> HIDE DEF Cut
  <2> QED BY <1>3
<1>5. Older(g, W) = h BY DEF Older
<1> HIDE DEF d
<1>6. h \in Seq(Nat) /\ Len(h) = Len(g) - d
  <2>1. Len(g) - d \in Nat BY <1>1, <1>4
  <2>2. \A i \in 1..(Len(g) - d) : g[i + d] + 1 \in Nat BY <1>1, <1>4
  <2> QED BY <2>1, <2>2
<1>7. \A i \in 1..(Len(g) - d) : i + d \in 1..Len(g) /\ ~(i + d <= d) /\ h[i] = g[i + d] + 1 BY <1>1, <1>4
<1> HIDE DEF h
<1>8. ASSUME NEW i \in 1..Len(h) PROVE h[i] < W
  <2>1. i + d \in 1..Len(g) /\ ~(i + d <= d) /\ h[i] = g[i + d] + 1 BY <1>6, <1>7
  <2>2. ~(g[i + d] + 1 >= W) BY <1>4, <2>1
  <2>3. g[i + d] \in Nat BY <1>1, <2>1
  <2> QED BY <2>1, <2>2, <2>3
<1>9. ASSUME NEW i \in 1..Len(h), NEW j \in 1..Len(h), i <= j PROVE h[i] >= h[j]
  <2>1. g[i + d] >= g[j + d] BY <1>1, <1>2, <1>4, <1>6, <1>7, <1>9
  <2> QED BY <1>1, <1>6, <1>7, <2>1
<1>10. Aged(W, h) BY <1>6, <1>8, <1>9 DEF Aged
<1>11. \A i \in 1..d : g[i] + 1 >= W BY <1>1, <1>4
<1>12. \A i \in (d + 1)..Len(g) : g[i] + 1 < W BY <1>1, <1>4
<1> HIDE DEF Cut, Young
<1>13. /\ \A i \in 1..d : g[i] + 1 >= W
       /\ \A i \in (d + 1)..Len(g) : g[i] + 1 < W
       /\ Len(Older(g, W)) = Len(g) - d
       /\ \A i \in 1..(Len(g) - d) : Older(g, W)[i] = g[i + d] + 1
  BY <1>5, <1>6, <1>7, <1>11, <1>12
<1> QED BY <1>1, <1>4, <1>5, <1>10, <1>13

\* A tick.  When a window closes its sends are cut off but those that were made
\* in it, and so is the send that opened it.
LEMMA LawTick ==
    ASSUME NEW cool, NEW C, NEW W, NEW g, NEW n, NEW x, NEW r, NEW p,
           Given(cool, C, W, g, n, x, r, p)
    PROVE  Law(cool, C, W, Older(g, W), IF x = 1 THEN 0 ELSE n, IF x > 0 THEN x - 1 ELSE 0, r, p)
<1> DEFINE h == Older(g, W)
           n2 == IF x = 1 THEN 0 ELSE n
           x2 == IF x > 0 THEN x - 1 ELSE 0
<1>0. /\ Aged(W, g) /\ x <= W /\ W \in Nat \ {0} /\ x \in Nat /\ n \in Nat /\ r \in Int /\ C \in Nat
      /\ Crowd \in Nat \ {0} /\ p \in Nat /\ cool \in BOOLEAN
  BY DEF Given, Law
<1>1. Aged(W, h) /\ Len(g) \in Nat BY <1>0, AgedOlder
<1>2. PICK d \in 0..Len(g) : /\ \A i \in 1..d : g[i] + 1 >= W
                             /\ \A i \in (d + 1)..Len(g) : g[i] + 1 < W
                             /\ Len(h) = Len(g) - d
                             /\ \A i \in 1..(Len(g) - d) : h[i] = g[i + d] + 1
  BY <1>0, AgedOlder, Zenon
<1>3. \A i \in 1..Len(g) : g[i] \in Nat BY <1>0 DEF Aged
<1> HIDE DEF h
<1>5. ASSUME cool PROVE Cool(W, h, n2, x2, r, p)
  <2>1. PICK s \in 0..r : /\ Len(g) + p <= s + Crowd
                          /\ x = 0 => Len(g) <= s
                          /\ x > 0 => n > 0 /\ \A i \in 1..Len(g) : i + s <= Len(g) => g[i] >= W - x
    BY <1>5 DEF Given, Law, Cool
  <2>2. Len(h) \in Nat /\ Len(h) = Len(g) - d /\ d \in Nat /\ s \in Nat BY <1>1, <1>2
  <2>3. Len(h) + p <= s + Crowd BY <1>0, <1>1, <2>1, <2>2
  <2>4. CASE x <= 1
    <3>1. x2 = 0 BY <1>0, <2>4
    <3>2. Len(h) <= s
      <4>1. CASE x = 1 /\ Len(g) > s
        <5> DEFINE last == Len(g) - s
        <5>1. last \in 1..Len(g) /\ last + s <= Len(g) BY <1>1, <2>2, <4>1
        <5> HIDE DEF last
        <5>2. g[last] >= W - x BY <2>1, <4>1, <5>1
        <5>3. last <= d
          <6>1. last \in (d + 1)..Len(g) => g[last] + 1 < W BY <1>2
          <6> QED BY <1>0, <1>1, <1>3, <2>2, <4>1, <5>1, <5>2, <6>1
        <5> QED BY <1>1, <2>2, <5>3 DEF last
      <4>2. CASE x = 0 \/ Len(g) <= s BY <1>1, <2>1, <2>2, <4>2
      <4> QED BY <1>0, <1>1, <2>2, <2>4, <4>1, <4>2
    <3> HIDE DEF x2, n2
    <3> QED BY <2>1, <2>3, <3>1, <3>2 DEF Cool
  <2>5. CASE x > 1
    <3>1. x2 = x - 1 /\ n2 = n BY <1>0, <2>5
    <3>2. ASSUME NEW i \in 1..Len(h), i + s <= Len(h) PROVE h[i] >= W - x2
      <4>1. i + d \in 1..Len(g) /\ (i + d) + s <= Len(g) /\ i \in 1..(Len(g) - d) BY <1>1, <2>2, <3>2
      <4>2. h[i] = g[i + d] + 1 BY <1>2, <4>1
      <4>3. g[i + d] >= W - x BY <1>0, <2>1, <2>5, <4>1
      <4> QED BY <1>0, <1>3, <3>1, <4>1, <4>2, <4>3
    <3>3. ~(x2 = 0) /\ n2 > 0 BY <1>0, <2>1, <2>5, <3>1
    <3> HIDE DEF x2, n2
    <3> QED BY <2>1, <2>3, <3>2, <3>3 DEF Cool
  <2> QED BY <1>0, <2>4, <2>5
<1>6. ASSUME ~cool, x = 0 PROVE Shut(C, h, r)
  <2>1. PICK s \in 0..r : Len(g) <= C + Crowd - 2 + s BY <1>6 DEF Given, Law, Shut
  <2>2. Len(h) <= C + Crowd - 2 + s BY <1>0, <1>1, <1>2, <2>1
  <2> QED BY <2>2 DEF Shut
<1>7. ASSUME ~cool, x = 1 PROVE Shut(C, h, r)
  <2>1. PICK j \in 0..Len(g) : \E s \in 0..r : \E u \in 0..r : s + u <= r /\ OpenAt(C, W, g, n, x, p, j, s, u)
    BY <1>7 DEF Given, Law, Open
  <2>2. PICK s \in 0..r, u \in 0..r : s + u <= r /\ OpenAt(C, W, g, n, x, p, j, s, u) BY <2>1
  <2>3. d >= j
    <3>1. j > 0 => j \in 1..Len(g) /\ g[j] >= W - x BY <1>1, <2>1, <2>2 DEF OpenAt
    <3>2. j \in (d + 1)..Len(g) => g[j] + 1 < W BY <1>2
    <3> QED BY <1>0, <1>1, <1>2, <1>3, <1>7, <2>1, <3>1, <3>2
  <2>4. CASE Opener(W, g, x, j)
    <3>1. j + 1 \in 1..Len(g) /\ g[j + 1] >= W - x BY <1>1, <2>1, <2>4 DEF Opener
    <3>2. j + 1 \in (d + 1)..Len(g) => g[j + 1] + 1 < W BY <1>2
    <3>3. d >= j + 1 BY <1>0, <1>1, <1>2, <1>3, <1>7, <2>1, <3>1, <3>2
    <3>4. Len(g) - j + p <= C + Crowd - 1 + u BY <2>2 DEF OpenAt
    <3>5. Len(h) <= C + Crowd - 2 + u BY <1>0, <1>1, <1>2, <2>1, <3>3, <3>4
    <3> QED BY <3>5 DEF Shut
  <2>5. CASE ~Opener(W, g, x, j)
    <3>1. Len(g) - j + p <= C + Crowd - 2 + u BY <2>2, <2>5 DEF OpenAt
    <3>2. Len(h) <= C + Crowd - 2 + u BY <1>0, <1>1, <1>2, <2>1, <2>3, <3>1
    <3> QED BY <3>2 DEF Shut
  <2> QED BY <2>4, <2>5
<1>8. ASSUME ~cool, x > 1 PROVE Open(C, W, h, n2, x2, r, p)
  <2>1. PICK j \in 0..Len(g) : \E s \in 0..r : \E u \in 0..r : s + u <= r /\ OpenAt(C, W, g, n, x, p, j, s, u)
    BY <1>8 DEF Given, Law, Open
  <2>2. PICK s \in 0..r, u \in 0..r : s + u <= r /\ OpenAt(C, W, g, n, x, p, j, s, u) BY <2>1
  <2>3. x2 = x - 1 /\ n2 = n BY <1>0, <1>8
  <2> HIDE DEF x2, n2
  <2>4. \A i \in (j + 1)..Len(g) : i \in 1..Len(g) /\ g[i] <= W - x BY <1>1, <2>1, <2>2 DEF OpenAt
  <2>5. \A i \in 1..j : i \in 1..Len(g) /\ g[i] >= W - x BY <1>1, <2>1, <2>2 DEF OpenAt
  <2>6. d <= j
    <3>1. d > j => d \in 1..d /\ d \in (j + 1)..Len(g) BY <1>1, <1>2, <2>1
    <3> QED BY <1>0, <1>1, <1>2, <1>3, <1>8, <2>1, <2>4, <3>1
  <2>7. j - d \in 0..Len(h) BY <1>1, <1>2, <2>1, <2>6
  <2>8. OpenAt(C, W, h, n2, x2, p, j - d, s, u)
    <3>1. j - d <= C + Crowd - 2 + s BY <1>0, <1>2, <2>1, <2>2 DEF OpenAt
    <3>2. \A i \in 1..(j - d) : i + d \in 1..j /\ i \in 1..(Len(g) - d) BY <1>1, <1>2, <2>1, <2>6
    <3>3. ASSUME NEW i \in 1..(j - d) PROVE h[i] >= W - x2
      <4>1. h[i] = g[i + d] + 1 /\ i + d \in 1..Len(g) /\ g[i + d] >= W - x BY <1>2, <2>5, <3>2
      <4>2. g[i + d] \in Nat BY <1>3, <4>1
      <4> QED BY <1>0, <2>3, <4>1, <4>2
    <3>4. \A i \in (j - d + 1)..Len(h) : i + d \in (j + 1)..Len(g) /\ i \in 1..(Len(g) - d) BY <1>1, <1>2, <2>1, <2>6
    <3>5. ASSUME NEW i \in (j - d + 1)..Len(h) PROVE h[i] <= W - x2
      <4>1. h[i] = g[i + d] + 1 /\ i + d \in 1..Len(g) /\ g[i + d] <= W - x BY <1>2, <2>4, <3>4
      <4>2. g[i + d] \in Nat BY <1>3, <4>1
      <4> QED BY <1>0, <2>3, <4>1, <4>2
    <3>6. Len(h) - (j - d) = Len(g) - j BY <1>1, <1>2, <2>1
    <3>7. Opener(W, g, x, j) => Opener(W, h, x2, j - d)
      <4>1. SUFFICES ASSUME j < Len(g), g[j + 1] >= W - x PROVE j - d < Len(h) /\ h[j - d + 1] >= W - x2 BY DEF Opener
      <4>2. j - d + 1 \in 1..(Len(g) - d) /\ (j - d + 1) + d = j + 1 /\ j + 1 \in 1..Len(g) BY <1>1, <1>2, <2>1, <2>6, <4>1
      <4>3. h[j - d + 1] = g[j + 1] + 1 BY <1>2, <4>2
      <4> QED BY <1>0, <1>1, <1>2, <1>3, <2>1, <2>3, <4>1, <4>2, <4>3
    <3> QED BY <2>2, <2>3, <3>1, <3>3, <3>5, <3>6, <3>7 DEF OpenAt
  <2> QED BY <2>2, <2>7, <2>8 DEF Open
<1>9. Law(cool, C, W, h, n2, x2, r, p)
  <2>1. x2 <= W /\ x2 \in Nat BY <1>0
  <2>2. x2 = 0 <=> x = 0 \/ x = 1 BY <1>0
  <2>3. x2 > 0 <=> x > 1 BY <1>0
  <2> HIDE DEF x2, n2
  <2> QED BY <1>1, <1>5, <1>6, <1>7, <1>8, <2>1, <2>2, <2>3 DEF Law
<1> QED BY <1>9 DEF h, n2, x2

-----------------------------------------------------------------------------
(***************************************************************************)
(* Keys and channel lists                                                  *)
(***************************************************************************)

IsCooldown(k) == k[1] = "cooldown"

LEMMA KeyFacts ==
    ASSUME NEW k \in Keys
    PROVE  /\ Cap(k) \in Nat /\ Window(k) \in Nat \ {0} /\ IsCooldown(k) \in BOOLEAN
           /\ IsCooldown(k) => Cap(k) = 1
           /\ ~IsCooldown(k) => Cap(k) > 1
<1>1. /\ GlobalCap \in Nat \ {0, 1} /\ CategoryCap \in Nat \ {0, 1} /\ ChannelCap \in Nat \ {0, 1}
      /\ Day \in Nat \ {0} /\ Hour \in Nat \ {0} /\ Cooldown \in Nat \ {0}
  BY CapsAssumption
<1>2. k[1] \in {"global", "category", "channel", "cooldown"}
  BY DEF Keys, GlobalKey, CategoryKey, ChannelKey, CooldownKey
<1>3. CASE k[1] = "global"
  <2>1. Cap(k) = GlobalCap /\ Window(k) = Day BY <1>3, Zenon DEF Cap, Window
  <2> QED BY <1>1, <1>3, <2>1 DEF IsCooldown
<1>4. CASE k[1] = "category"
  <2>1. Cap(k) = CategoryCap BY <1>4, Zenon DEF Cap
  <2>2. k[1] \notin {"global", "channel"} BY <1>4
  <2>3. Window(k) = Hour BY <1>4, <2>2, Zenon DEF Window
  <2> QED BY <1>1, <1>4, <2>1, <2>3 DEF IsCooldown
<1>5. CASE k[1] = "channel"
  <2>1. Cap(k) = ChannelCap BY <1>5, Zenon DEF Cap
  <2>2. Window(k) = Day BY <1>5, Zenon DEF Window
  <2> QED BY <1>1, <1>5, <2>1, <2>2 DEF IsCooldown
<1>6. CASE k[1] = "cooldown"
  <2>1. Cap(k) = 1 BY <1>6, Zenon DEF Cap
  <2>2. k[1] \notin {"global", "channel"} BY <1>6
  <2>3. Window(k) = Cooldown BY <1>6, <2>2, Zenon DEF Window
  <2> QED BY <1>1, <1>6, <2>1, <2>3 DEF IsCooldown
<1> QED BY <1>2, <1>3, <1>4, <1>5, <1>6

\* The keys a channel of an event answers to.
Asked(t, c) == {CapsOf(t, c)[i] : i \in DOMAIN CapsOf(t, c)}

LEMMA AskedIs ==
    ASSUME NEW t, NEW c
    PROVE  /\ Asked(t, c) \subseteq Recorded(t, c, TRUE)
           /\ t \in Critical => Asked(t, c) = {}
           /\ ChannelKey(c) \in Recorded(t, c, TRUE) /\ ChannelKey(c) \in Recorded(t, c, FALSE)
<1>1. CASE t \in Critical
  <2>1. CapsOf(t, c) = <<>> BY <1>1 DEF CapsOf
  <2>2. Asked(t, c) = {} BY <2>1 DEF Asked
  <2> QED BY <2>2 DEF Recorded
<1>2. CASE t \notin Critical /\ t \in Mandated
  <2>1. CapsOf(t, c) = <<CategoryKey(t), GlobalKey>> BY <1>2 DEF CapsOf
  <2>2. Asked(t, c) = {CategoryKey(t), GlobalKey} BY <2>1 DEF Asked
  <2> QED BY <1>2, <2>2 DEF Recorded
<1>3. CASE t \notin Critical /\ t \notin Mandated
  <2>1. CapsOf(t, c) = <<CooldownKey(t), CategoryKey(t), ChannelKey(c), GlobalKey>> BY <1>3 DEF CapsOf
  <2>2. Asked(t, c) = {CooldownKey(t), CategoryKey(t), ChannelKey(c), GlobalKey} BY <2>1 DEF Asked
  <2> QED BY <1>3, <2>2 DEF Recorded
<1> QED BY <1>1, <1>2, <1>3

\* Of the keys a channel answers to, only its own names a channel.
LEMMA ChannelAsked ==
    ASSUME NEW t, NEW c, NEW d, ChannelKey(d) \in Asked(t, c)
    PROVE  d = c
<1>1. ChannelKey(d) \in Recorded(t, c, TRUE) BY AskedIs
<1>2. ChannelKey(d) = ChannelKey(c)
  BY <1>1 DEF Recorded, ChannelKey, GlobalKey, CategoryKey, CooldownKey
<1> QED BY <1>2 DEF ChannelKey

Elems(s) == {s[i] : i \in 1..Len(s)}
Distinct(s) == \A i, j \in 1..Len(s) : s[i] = s[j] => i = j

LEMMA EmptyList == Elems(<<>>) = {} /\ Distinct(<<>>)
BY DEF Elems, Distinct

LEMMA ListTail ==
    ASSUME NEW S, NEW s \in Seq(S), s # <<>>, Distinct(s)
    PROVE  /\ Head(s) \in Elems(s) /\ Head(s) \in S /\ Tail(s) \in Seq(S) /\ Distinct(Tail(s))
           /\ Elems(s) = Elems(Tail(s)) \cup {Head(s)} /\ Head(s) \notin Elems(Tail(s))
           /\ Len(s) # 1 => Tail(s) # <<>>
<1>1. Len(s) \in Nat /\ Len(s) >= 1 /\ Head(s) = s[1] /\ Tail(s) \in Seq(S) /\ Len(Tail(s)) = Len(s) - 1
  OBVIOUS
<1>2. \A i \in 1..Len(Tail(s)) : Tail(s)[i] = s[i + 1] /\ i + 1 \in 1..Len(s) BY <1>1
<1>3. 1 \in 1..Len(s) /\ s[1] \in S BY <1>1
<1>4. Distinct(Tail(s)) BY <1>1, <1>2 DEF Distinct
<1>5. \A i \in 1..Len(s) : i = 1 \/ (i - 1 \in 1..Len(Tail(s)) /\ Tail(s)[i - 1] = s[i]) BY <1>1, <1>2
<1>6. Elems(s) \subseteq Elems(Tail(s)) \cup {s[1]} BY <1>5 DEF Elems
<1>7. Elems(Tail(s)) \subseteq Elems(s) BY <1>2 DEF Elems
<1>8. s[1] \in Elems(s) BY <1>3 DEF Elems
<1>9. s[1] \notin Elems(Tail(s))
  <2>1. SUFFICES ASSUME NEW i \in 1..Len(Tail(s)), Tail(s)[i] = s[1] PROVE FALSE BY DEF Elems
  <2>2. s[i + 1] = s[1] /\ i + 1 \in 1..Len(s) BY <1>2, <2>1
  <2>3. i + 1 = 1 BY <1>3, <2>2 DEF Distinct
  <2> QED BY <1>1, <2>3
<1>10. Len(s) # 1 => Tail(s) # <<>> BY <1>1
<1> QED BY <1>1, <1>3, <1>4, <1>6, <1>7, <1>8, <1>9, <1>10

LEMMA ListAppend ==
    ASSUME NEW S, NEW s \in Seq(S), Distinct(s), NEW c \in S, c \notin Elems(s)
    PROVE  Append(s, c) \in Seq(S) /\ Distinct(Append(s, c)) /\ Elems(Append(s, c)) = Elems(s) \cup {c}
<1>1. /\ Len(s) \in Nat /\ Append(s, c) \in Seq(S) /\ Len(Append(s, c)) = Len(s) + 1
      /\ \A i \in 1..Len(s) : Append(s, c)[i] = s[i]
      /\ Append(s, c)[Len(s) + 1] = c
  OBVIOUS
<1> DEFINE h == Append(s, c)
<1> HIDE DEF h
<1>2. \A i \in 1..Len(h) : (i \in 1..Len(s) /\ h[i] = s[i]) \/ (i = Len(s) + 1 /\ h[i] = c) BY <1>1 DEF h
<1>3. \A i \in 1..Len(s) : s[i] # c BY DEF Elems
<1>4. Distinct(h) BY <1>2, <1>3 DEF Distinct
<1>5. \A i \in 1..Len(s) : i \in 1..Len(h) /\ h[i] = s[i] BY <1>1 DEF h
<1>6. Len(s) + 1 \in 1..Len(h) /\ h[Len(s) + 1] = c BY <1>1 DEF h
<1>7. Elems(h) = Elems(s) \cup {c} BY <1>2, <1>5, <1>6 DEF Elems
<1> QED BY <1>1, <1>4, <1>7 DEF h

-----------------------------------------------------------------------------
(***************************************************************************)
(* The actors.  The consumers make checked sends; the release does not ask.*)
(***************************************************************************)

Shapes ==
    /\ pc \in [Actors -> {"idle", "check", "record"}] /\ cur \in [Actors -> Types \cup {None}]
    /\ first \in [Actors -> BOOLEAN] /\ told \in [Actors -> BOOLEAN]
    /\ DOMAIN todo = Actors /\ DOMAIN kept = Actors /\ DOMAIN open = Actors
    /\ count \in [Keys -> Nat] /\ ttl \in [Keys -> Nat] /\ DOMAIN sent = Keys
    /\ faults \in Nat

\* A channel is being checked.
Asking(a) == pc[a] = "check" /\ todo[a] # <<>>

\* A consumer's lists name a channel once, and a channel that has been asked for
\* is not asked for again.
ConsumerRow(a) ==
    /\ todo[a] \in Seq(AllChannels) /\ kept[a] \in Seq(AllChannels)
    /\ Distinct(todo[a]) /\ Distinct(kept[a])
    /\ pc[a] = "check" => Elems(todo[a]) \cap Elems(kept[a]) = {}
    /\ pc[a] = "idle" => kept[a] = <<>>
    /\ pc[a] = "record" => todo[a] # <<>>
    /\ pc[a] # "record" => first[a]
    /\ first[a] => ~told[a]
    /\ Asking(a) => open[a] \in 0..Len(CapsOf(cur[a], Head(todo[a])))
    /\ ~Asking(a) => open[a] = 0

Rows == \A a \in Consumers : ConsumerRow(a)

\* The keys that the sends of a consumer will answer to: of the channels that
\* have passed the check, and of the one at hand those that were found open.
Passed(a) == IF pc[a] = "record" THEN Elems(todo[a]) ELSE Elems(kept[a])
FoundOpen(a) == IF Asking(a) THEN {CapsOf(cur[a], Head(todo[a]))[i] : i \in 1..open[a]} ELSE {}
Pending(a, k) ==
    \/ \E c \in Passed(a) : k \in Asked(cur[a], c) /\ (told[a] => k = ChannelKey(c))
    \/ k \in FoundOpen(a)
Coming(k) == Cardinality({a \in Consumers : Pending(a, k)})

\* A fault has left the event without its first record, and the sends that
\* follow will not make up for it: they count their channel only.
Uncounted(a) == pc[a] = "record" /\ ~first[a] /\ ~told[a]
Owed == Cardinality({a \in Consumers : Uncounted(a)})

LawOf(k) == Law(IsCooldown(k), Cap(k), Window(k), sent[k], count[k], ttl[k], faults - Owed, Coming(k))

Bounded == \A k \in Keys : LawOf(k)

CapsInv == Shapes /\ Rows /\ Bounded

Row(a) == <<pc[a], cur[a], todo[a], open[a], kept[a], first[a], told[a]>>

LEMMA CrowdSize == IsFiniteSet(Consumers) /\ Crowd \in Nat \ {0}
<1>1. IsFiniteSet(Consumers) /\ Consumers # {} BY CapsAssumption
<1> QED BY <1>1, FS_CardinalityType, FS_EmptySet DEF Crowd

\* One consumer in or out of a set of consumers.
LEMMA CountMove ==
    ASSUME NEW S, NEW T, S \subseteq Consumers, T \subseteq Consumers, NEW a, S \ {a} = T \ {a}
    PROVE  /\ Cardinality(S) \in 0..Crowd /\ Cardinality(T) \in 0..Crowd
           /\ Cardinality(T) <= Cardinality(S) + 1
           /\ (a \in T => a \in S) => Cardinality(T) <= Cardinality(S)
           /\ a \in S /\ a \notin T => Cardinality(S) >= 1 /\ Cardinality(T) = Cardinality(S) - 1
<1>1. IsFiniteSet(S) /\ Cardinality(S) <= Crowd BY CrowdSize, FS_Subset DEF Crowd
<1>2. IsFiniteSet(T) /\ Cardinality(T) <= Crowd BY CrowdSize, FS_Subset DEF Crowd
<1>3. Cardinality(S) \in Nat /\ Cardinality(T) \in Nat /\ Crowd \in Nat BY <1>1, <1>2, CrowdSize, FS_CardinalityType
<1>4. Cardinality(S \ {a}) = IF a \in S THEN Cardinality(S) - 1 ELSE Cardinality(S) BY <1>1, FS_RemoveElement
<1>5. Cardinality(T \ {a}) = IF a \in T THEN Cardinality(T) - 1 ELSE Cardinality(T) BY <1>2, FS_RemoveElement
<1>6. Cardinality(S \ {a}) \in Nat
  <2>1. IsFiniteSet(S \ {a}) BY <1>1, FS_RemoveElement
  <2> QED BY <2>1, FS_CardinalityType
<1> QED BY <1>1, <1>2, <1>3, <1>4, <1>5, <1>6

LEMMA Small ==
    /\ Owed \in 0..Crowd /\ Owed' \in 0..Crowd
    /\ \A k : Coming(k) \in 0..Crowd /\ Coming(k)' \in 0..Crowd
<1>1. \A S : S \subseteq Consumers => Cardinality(S) \in 0..Crowd BY CountMove
<1>2. {a \in Consumers : Uncounted(a)} \subseteq Consumers OBVIOUS
<1>3. {a \in Consumers : Uncounted(a)'} \subseteq Consumers OBVIOUS
<1>4. \A k : {a \in Consumers : Pending(a, k)} \subseteq Consumers OBVIOUS
<1>5. \A k : {a \in Consumers : Pending(a, k)'} \subseteq Consumers OBVIOUS
<1> QED BY <1>1, <1>2, <1>3, <1>4, <1>5 DEF Owed, Coming

\* What an actor is about is in its row.
LEMMA Untouched ==
    ASSUME NEW a \in Actors, UNCHANGED Row(a)
    PROVE  /\ ConsumerRow(a) => ConsumerRow(a)'
           /\ Uncounted(a)' <=> Uncounted(a)
           /\ \A k : Pending(a, k)' <=> Pending(a, k)
<1>1. /\ pc'[a] = pc[a] /\ cur'[a] = cur[a] /\ todo'[a] = todo[a] /\ open'[a] = open[a]
      /\ kept'[a] = kept[a] /\ first'[a] = first[a] /\ told'[a] = told[a]
  BY DEF Row
<1>2. Asking(a)' <=> Asking(a) BY <1>1 DEF Asking
<1>3. ConsumerRow(a) => ConsumerRow(a)' BY <1>1, <1>2 DEF ConsumerRow
<1>4. Uncounted(a)' <=> Uncounted(a) BY <1>1 DEF Uncounted
<1>5. Passed(a)' = Passed(a) /\ FoundOpen(a)' = FoundOpen(a) BY <1>1, <1>2 DEF Passed, FoundOpen
<1>6. ASSUME NEW k PROVE Pending(a, k)' <=> Pending(a, k) BY <1>1, <1>5 DEF Pending
<1> QED BY <1>3, <1>4, <1>6

\* A step of one consumer, and what it does to what is to come and to what is owed.
LEMMA Moves ==
    ASSUME NEW a \in Actors, \A b \in Actors \ {a} : UNCHANGED Row(b)
    PROVE  /\ Rows /\ (a \in Consumers => ConsumerRow(a)') => Rows'
           /\ Owed' <= Owed + 1
           /\ (a \in Consumers /\ Uncounted(a)' => Uncounted(a)) => Owed' <= Owed
           /\ a \in Consumers /\ Uncounted(a) /\ ~Uncounted(a)' => Owed' + 1 <= Owed
           /\ \A k : /\ (a \in Consumers /\ Pending(a, k)' => Pending(a, k)) => Coming(k)' <= Coming(k)
                     /\ a \in Consumers /\ Pending(a, k) /\ ~Pending(a, k)' =>
                           Coming(k) >= 1 /\ Coming(k)' = Coming(k) - 1
<1>0. Consumers \subseteq Actors BY DEF Actors
<1>1. ASSUME NEW b \in Consumers, b # a
      PROVE  /\ ConsumerRow(b) => ConsumerRow(b)'
             /\ Uncounted(b)' <=> Uncounted(b)
             /\ \A k : Pending(b, k)' <=> Pending(b, k)
  BY <1>0, <1>1, Untouched
<1>2. Rows /\ (a \in Consumers => ConsumerRow(a)') => Rows' BY <1>1 DEF Rows
<1>3. /\ Owed' <= Owed + 1
      /\ (a \in Consumers /\ Uncounted(a)' => Uncounted(a)) => Owed' <= Owed
      /\ a \in Consumers /\ Uncounted(a) /\ ~Uncounted(a)' => Owed' + 1 <= Owed
  <2> DEFINE S == {b \in Consumers : Uncounted(b)}
             T == {b \in Consumers : Uncounted(b)'}
  <2>1. S \subseteq Consumers /\ T \subseteq Consumers /\ S \ {a} = T \ {a} BY <1>1
  <2>2. Owed = Cardinality(S) /\ Owed' = Cardinality(T) BY DEF Owed
  <2>3. (a \in S <=> a \in Consumers /\ Uncounted(a)) /\ (a \in T <=> a \in Consumers /\ Uncounted(a)') OBVIOUS
  <2> HIDE DEF S, T
  <2>4. /\ Cardinality(S) \in 0..Crowd /\ Cardinality(T) \in 0..Crowd
        /\ Cardinality(T) <= Cardinality(S) + 1
        /\ (a \in T => a \in S) => Cardinality(T) <= Cardinality(S)
        /\ a \in S /\ a \notin T => Cardinality(S) >= 1 /\ Cardinality(T) = Cardinality(S) - 1
    BY <2>1, CountMove
  <2> QED BY <2>2, <2>3, <2>4
<1>4. ASSUME NEW k
      PROVE  /\ (a \in Consumers /\ Pending(a, k)' => Pending(a, k)) => Coming(k)' <= Coming(k)
             /\ a \in Consumers /\ Pending(a, k) /\ ~Pending(a, k)' =>
                   Coming(k) >= 1 /\ Coming(k)' = Coming(k) - 1
  <2> DEFINE S == {b \in Consumers : Pending(b, k)}
             T == {b \in Consumers : Pending(b, k)'}
  <2>1. S \subseteq Consumers /\ T \subseteq Consumers /\ S \ {a} = T \ {a} BY <1>1
  <2>2. Coming(k) = Cardinality(S) /\ Coming(k)' = Cardinality(T) BY DEF Coming
  <2>3. (a \in S <=> a \in Consumers /\ Pending(a, k)) /\ (a \in T <=> a \in Consumers /\ Pending(a, k)') OBVIOUS
  <2> HIDE DEF S, T
  <2>4. /\ (a \in T => a \in S) => Cardinality(T) <= Cardinality(S)
        /\ a \in S /\ a \notin T => Cardinality(S) >= 1 /\ Cardinality(T) = Cardinality(S) - 1
    BY <2>1, CountMove
  <2> QED BY <2>2, <2>3, <2>4
<1> QED BY <1>2, <1>3, <1>4

\* Nobody's row changes.
LEMMA AllUntouched ==
    ASSUME \A a \in Actors : UNCHANGED Row(a)
    PROVE  (Rows => Rows') /\ Owed' = Owed /\ \A k : Coming(k)' = Coming(k)
<1>0. Consumers \subseteq Actors BY DEF Actors
<1>1. \A a \in Consumers : /\ ConsumerRow(a) => ConsumerRow(a)'
                           /\ Uncounted(a)' <=> Uncounted(a)
                           /\ \A k : Pending(a, k)' <=> Pending(a, k)
  BY <1>0, Untouched
<1>2. Rows => Rows' BY <1>1 DEF Rows
<1>3. {a \in Consumers : Uncounted(a)'} = {a \in Consumers : Uncounted(a)} BY <1>1
<1>4. \A k : {a \in Consumers : Pending(a, k)'} = {a \in Consumers : Pending(a, k)} BY <1>1
<1> QED BY <1>2, <1>3, <1>4 DEF Owed, Coming

LEMMA LeaveOwn ==
    ASSUME Shapes, NEW a \in Actors, Leave(a)
    PROVE  /\ pc'[a] = "idle" /\ kept'[a] = <<>> /\ todo'[a] = <<>> /\ open'[a] = open[a]
           /\ first'[a] /\ ~told'[a]
           /\ \A b \in Actors \ {a} : UNCHANGED Row(b)
           /\ pc' \in [Actors -> {"idle", "check", "record"}] /\ cur' \in [Actors -> Types \cup {None}]
           /\ first' \in [Actors -> BOOLEAN] /\ told' \in [Actors -> BOOLEAN]
           /\ DOMAIN todo' = Actors /\ DOMAIN kept' = Actors /\ DOMAIN open' = Actors
BY DEF Shapes, Leave, Row

LEMMA AdvanceOwn ==
    ASSUME Shapes, NEW a \in Actors, NEW published \in BOOLEAN, Advance(a, published), pc[a] = "record"
    PROVE  /\ \A b \in Actors \ {a} : UNCHANGED Row(b)
           /\ pc' \in [Actors -> {"idle", "check", "record"}] /\ cur' \in [Actors -> Types \cup {None}]
           /\ first' \in [Actors -> BOOLEAN] /\ told' \in [Actors -> BOOLEAN]
           /\ DOMAIN todo' = Actors /\ DOMAIN kept' = Actors /\ DOMAIN open' = Actors
           /\ open'[a] = open[a]
           /\ \/ pc'[a] = "idle" /\ kept'[a] = <<>> /\ todo'[a] = <<>> /\ first'[a] /\ ~told'[a]
              \/ /\ Len(todo[a]) # 1 /\ pc'[a] = "record" /\ cur'[a] = cur[a] /\ kept'[a] = kept[a]
                 /\ todo'[a] = Tail(todo[a]) /\ ~first'[a] /\ told'[a] = (told[a] \/ published)
<1>1. CASE Len(todo[a]) = 1
  <2>1. Leave(a) BY <1>1 DEF Advance
  <2> QED BY <2>1, LeaveOwn
<1>2. CASE Len(todo[a]) # 1
  <2>1. /\ todo' = [todo EXCEPT ![a] = Tail(@)] /\ first' = [first EXCEPT ![a] = FALSE]
        /\ told' = [told EXCEPT ![a] = @ \/ published]
        /\ pc' = pc /\ cur' = cur /\ kept' = kept /\ open' = open
    BY <1>2 DEF Advance
  <2> QED BY <1>2, <2>1 DEF Shapes, Row
<1> QED BY <1>1, <1>2

\* What a step of the actors does to the keys when it sends nothing.
Stays(k) == sent'[k] = sent[k] /\ ttl'[k] = ttl[k]
            /\ (count'[k] = count[k] \/ (count'[k] = count[k] + 1 /\ ~IsCooldown(k)))

LEMMA GivenOf ==
    ASSUME Shapes, Bounded, NEW k \in Keys
    PROVE  Given(IsCooldown(k), Cap(k), Window(k), sent[k], count[k], ttl[k], faults - Owed, Coming(k))
<1>1. count[k] \in Nat /\ ttl[k] \in Nat /\ faults - Owed \in Int /\ Coming(k) \in 0..Crowd
  BY CrowdSize, Small DEF Shapes
<1>2. LawOf(k) BY DEF Bounded
<1>3. Cap(k) \in Nat /\ Window(k) \in Nat \ {0} /\ IsCooldown(k) \in BOOLEAN BY KeyFacts
<1>4. (IsCooldown(k) => Cap(k) = 1) /\ (~IsCooldown(k) => Cap(k) > 1) BY KeyFacts
<1> QED BY <1>1, <1>2, <1>3, <1>4, CrowdSize DEF LawOf, Given

\* The five ways a key goes through a step.
LEMMA StaysLawful ==
    ASSUME Shapes, Bounded, NEW k \in Keys, Stays(k), faults' \in Nat,
           faults' - Owed' >= faults - Owed,
           Coming(k)' <= Coming(k) \/ count[k] < Cap(k)
    PROVE  LawOf(k)'
<1>1. Given(IsCooldown(k), Cap(k), Window(k), sent[k], count[k], ttl[k], faults - Owed, Coming(k)) BY GivenOf
<1>2. count'[k] \in Nat /\ count'[k] >= count[k] BY DEF Shapes, Stays
<1>3. faults' - Owed' \in Int /\ Coming(k)' \in 0..Crowd BY Small
<1>4. Law(IsCooldown(k), Cap(k), Window(k), sent[k], count'[k], ttl[k], faults' - Owed', Coming(k)')
  BY <1>1, <1>2, <1>3, LawKept
<1> QED BY <1>4 DEF LawOf, Stays

Counts(k) ==
    /\ count'[k] = IF IsCooldown(k) THEN 1 ELSE count[k] + 1
    /\ ttl'[k] = IF IsCooldown(k) \/ ttl[k] = 0 THEN Window(k) ELSE ttl[k]

\* A send that was to come is made.
Sends(k) == sent'[k] = Append(sent[k], 0) /\ Coming(k) >= 1 /\ Coming(k)' = Coming(k) - 1

LEMMA CountedLawful ==
    ASSUME Shapes, Bounded, NEW k \in Keys, Counts(k), Sends(k), faults' \in Nat,
           faults' - Owed' >= faults - Owed
    PROVE  LawOf(k)'
<1>1. Given(IsCooldown(k), Cap(k), Window(k), sent[k], count[k], ttl[k], faults - Owed, Coming(k)) BY GivenOf
<1>2. faults' - Owed' \in Int BY Small
<1>3. Law(IsCooldown(k), Cap(k), Window(k), Append(sent[k], 0), IF IsCooldown(k) THEN 1 ELSE count[k] + 1,
          IF IsCooldown(k) \/ ttl[k] = 0 THEN Window(k) ELSE ttl[k], faults' - Owed', Coming(k) - 1)
  BY <1>1, <1>2, LawCounted DEF Sends
<1> QED BY <1>3 DEF LawOf, Counts, Sends

LEMMA UncountedLawful ==
    ASSUME Shapes, Bounded, NEW k \in Keys, ttl'[k] = ttl[k],
           count'[k] = count[k] \/ (count'[k] = count[k] + 1 /\ ~IsCooldown(k)),
           Sends(k), faults' \in Nat, faults' - Owed' > faults - Owed
    PROVE  LawOf(k)'
<1>1. Given(IsCooldown(k), Cap(k), Window(k), sent[k], count[k], ttl[k], faults - Owed, Coming(k)) BY GivenOf
<1>2. faults' - Owed' \in Int BY Small
<1>3. count'[k] \in Nat /\ count'[k] >= count[k] BY DEF Shapes
<1>4. Law(IsCooldown(k), Cap(k), Window(k), Append(sent[k], 0), count'[k], ttl[k], faults' - Owed', Coming(k) - 1)
  BY <1>1, <1>2, <1>3, LawUncounted DEF Sends
<1> QED BY <1>4 DEF LawOf, Sends

LEMMA OtherCountedLawful ==
    ASSUME Shapes, Bounded, NEW k \in Keys, Counts(k), sent'[k] = sent[k], faults' \in Nat,
           faults' - Owed' >= faults - Owed, Coming(k)' <= Coming(k)
    PROVE  LawOf(k)'
<1>1. Given(IsCooldown(k), Cap(k), Window(k), sent[k], count[k], ttl[k], faults - Owed, Coming(k)) BY GivenOf
<1>2. faults' - Owed' \in Int /\ Coming(k)' \in 0..Crowd BY Small
<1>3. Law(IsCooldown(k), Cap(k), Window(k), sent[k], IF IsCooldown(k) THEN 1 ELSE count[k] + 1,
          IF IsCooldown(k) \/ ttl[k] = 0 THEN Window(k) ELSE ttl[k], faults' - Owed', Coming(k)')
  BY <1>1, <1>2, LawOtherCounted
<1> QED BY <1>3 DEF LawOf, Counts

LEMMA TickLawful ==
    ASSUME Shapes, Rows, Bounded, Tick
    PROVE  Shapes' /\ Rows' /\ Bounded'
<1>1. UNCHANGED <<pc, cur, todo, open, kept, first, told, faults>> BY DEF Tick, actor
<1>2. \A a \in Actors : UNCHANGED Row(a) BY <1>1 DEF Row
<1>3. Rows' /\ Owed' = Owed /\ \A k : Coming(k)' = Coming(k) BY <1>2, AllUntouched
<1>4. ASSUME NEW k \in Keys PROVE LawOf(k)'
  <2>1. Given(IsCooldown(k), Cap(k), Window(k), sent[k], count[k], ttl[k], faults - Owed, Coming(k)) BY GivenOf
  <2>2. Law(IsCooldown(k), Cap(k), Window(k), Older(sent[k], Window(k)), IF ttl[k] = 1 THEN 0 ELSE count[k],
            IF ttl[k] > 0 THEN ttl[k] - 1 ELSE 0, faults - Owed, Coming(k))
    BY <2>1, LawTick
  <2>3. /\ sent'[k] = Older(sent[k], Window(k)) /\ count'[k] = (IF ttl[k] = 1 THEN 0 ELSE count[k])
        /\ ttl'[k] = (IF ttl[k] > 0 THEN ttl[k] - 1 ELSE 0)
    BY DEF Tick
  <2> QED BY <1>1, <1>3, <2>2, <2>3 DEF LawOf
<1>5. count' \in [Keys -> Nat] BY DEF Tick, Shapes
<1>6. ttl' \in [Keys -> Nat] BY DEF Tick, Shapes
<1>7. DOMAIN sent' = Keys BY DEF Tick
<1> QED BY <1>1, <1>3, <1>4, <1>5, <1>6, <1>7 DEF Shapes, Bounded

-----------------------------------------------------------------------------
(***************************************************************************)
(* One lemma per action                                                    *)
(***************************************************************************)

\* On to the next channel, or done: what was to come still is, but for the
\* channel at hand.
LEMMA ConsumerAdvance ==
    ASSUME Shapes, NEW a \in Consumers, ConsumerRow(a), NEW published \in BOOLEAN,
           Advance(a, published), pc[a] = "record"
    PROVE  /\ ConsumerRow(a)'
           /\ \A k : Pending(a, k)' => Pending(a, k)
           /\ published => ~Uncounted(a)'
           /\ published => \A k \in Asked(cur[a], Head(todo[a])) :
                 (told[a] => k = ChannelKey(Head(todo[a]))) => Pending(a, k) /\ ~Pending(a, k)'
<1> DEFINE c == Head(todo[a])
<1>0. a \in Actors BY DEF Actors
<1>1. /\ open'[a] = open[a]
      /\ \/ pc'[a] = "idle" /\ kept'[a] = <<>> /\ todo'[a] = <<>> /\ first'[a] /\ ~told'[a]
         \/ /\ Len(todo[a]) # 1 /\ pc'[a] = "record" /\ cur'[a] = cur[a] /\ kept'[a] = kept[a]
            /\ todo'[a] = Tail(todo[a]) /\ ~first'[a] /\ told'[a] = (told[a] \/ published)
  BY <1>0, AdvanceOwn
<1>2. /\ c \in Elems(todo[a]) /\ Elems(todo[a]) = Elems(Tail(todo[a])) \cup {c} /\ c \notin Elems(Tail(todo[a]))
      /\ Tail(todo[a]) \in Seq(AllChannels) /\ Distinct(Tail(todo[a]))
      /\ Len(todo[a]) # 1 => Tail(todo[a]) # <<>>
  BY ListTail DEF ConsumerRow
<1>3. ~Asking(a) /\ ~Asking(a)' /\ open[a] = 0 BY <1>1 DEF Asking, ConsumerRow
<1>4. ConsumerRow(a)'
  <2>1. CASE pc'[a] = "idle"
    <3>0. kept'[a] = <<>> /\ todo'[a] = <<>> /\ first'[a] /\ ~told'[a] BY <1>1, <2>1
    <3>1. <<>> \in Seq(AllChannels) OBVIOUS
    <3>2. Distinct(todo'[a]) /\ Distinct(kept'[a]) BY <3>0, EmptyList
    <3> QED BY <1>1, <1>3, <2>1, <3>0, <3>1, <3>2 DEF ConsumerRow
  <2>2. CASE pc'[a] # "idle" BY <1>1, <1>2, <1>3, <2>2 DEF ConsumerRow
  <2> QED BY <2>1, <2>2
<1>5. Passed(a) = Elems(todo[a]) /\ FoundOpen(a)' = {} BY <1>3 DEF Passed, FoundOpen
<1>6. \/ Passed(a)' = {}
      \/ Passed(a)' = Elems(Tail(todo[a])) /\ cur'[a] = cur[a] /\ told'[a] = (told[a] \/ published)
  BY <1>1, EmptyList DEF Passed
<1>7. ASSUME NEW k, Pending(a, k)' PROVE Pending(a, k)
  <2>1. PICK d \in Passed(a)' : k \in Asked(cur'[a], d) /\ (told'[a] => k = ChannelKey(d))
    BY <1>5, <1>7 DEF Pending
  <2>2. d \in Passed(a) /\ cur'[a] = cur[a] /\ told'[a] = (told[a] \/ published) BY <1>2, <1>5, <1>6, <2>1
  <2> QED BY <2>1, <2>2 DEF Pending
<1>8. ASSUME published PROVE ~Uncounted(a)' BY <1>1, <1>8 DEF Uncounted
<1>9. ASSUME published, NEW k \in Asked(cur[a], c), told[a] => k = ChannelKey(c)
      PROVE Pending(a, k) /\ ~Pending(a, k)'
  <2>1. Pending(a, k) BY <1>2, <1>5, <1>9 DEF Pending
  <2>2. ASSUME Pending(a, k)' PROVE FALSE
    <3>1. PICK d \in Passed(a)' : k \in Asked(cur'[a], d) /\ (told'[a] => k = ChannelKey(d))
      BY <1>5, <2>2 DEF Pending
    <3>2. d \in Elems(Tail(todo[a])) /\ k = ChannelKey(d) BY <1>6, <1>9, <3>1
    <3>3. d = c BY <1>9, <3>2, ChannelAsked
    <3> QED BY <1>2, <3>2, <3>3
  <2> QED BY <2>1, <2>2
<1> QED BY <1>4, <1>7, <1>8, <1>9

\* How a key comes out of record(): counted and timed, counted only, or not at all.
Half(k) == ttl'[k] = ttl[k] /\ (count'[k] = count[k] \/ (count'[k] = count[k] + 1 /\ ~IsCooldown(k)))

LEMMA IncrementCounts ==
    ASSUME Shapes, NEW counted, NEW timed, increment(counted, timed), timed \subseteq counted,
           \A k \in counted \ timed : ~IsCooldown(k)
    PROVE  /\ count' \in [Keys -> Nat] /\ ttl' \in [Keys -> Nat]
           /\ \A k \in Keys : IF k \in timed THEN Counts(k) ELSE Half(k)
<1>1. \A k \in Keys : Window(k) \in Nat BY KeyFacts
<1>2. \A k \in Keys : expire(k) \in Nat BY <1>1 DEF expire, Shapes
<1>3. count' = [k \in Keys |-> IF k \in counted THEN IF k[1] = "cooldown" THEN 1 ELSE count[k] + 1 ELSE count[k]] BY DEF increment
<1>4. ttl' = [k \in Keys |-> IF k \in timed THEN IF k[1] = "cooldown" THEN Window(k) ELSE expire(k) ELSE ttl[k]] BY DEF increment
<1>5. count' \in [Keys -> Nat] BY <1>3 DEF Shapes
<1>6. ttl' \in [Keys -> Nat] BY <1>1, <1>2, <1>4 DEF Shapes
<1>7. ASSUME NEW k \in Keys PROVE IF k \in timed THEN Counts(k) ELSE Half(k)
  <2>1. count'[k] = IF k \in counted THEN IF k[1] = "cooldown" THEN 1 ELSE count[k] + 1 ELSE count[k] BY <1>3
  <2>2. ttl'[k] = IF k \in timed THEN IF k[1] = "cooldown" THEN Window(k) ELSE expire(k) ELSE ttl[k] BY <1>4
  <2>3. CASE k \in timed BY <2>1, <2>2, <2>3 DEF Counts, IsCooldown, expire
  <2>4. CASE k \notin timed
    <3>1. k \in counted => ~(k[1] = "cooldown") BY <2>4 DEF IsCooldown
    <3> QED BY <2>1, <2>2, <2>4, <3>1 DEF Half, IsCooldown
  <2> QED BY <2>3, <2>4
<1> QED BY <1>5, <1>6, <1>7

\* A publish is a send for the keys a consumer had asked, and for no others: such
\* a send was to come, and is no longer; if it is not counted, a fault is owed.
IsSend(a, k) == a \in Consumers /\ Sends(k) /\ (k \notin Keyed(a) => Uncounted(a))

\* A key of the event that is sent for and not counted: a fault is owed for it.
LEMMA SentUncounted ==
    ASSUME Shapes, NEW a \in Actors, pc[a] = "record", NEW c,
           NEW k \in Asked(cur[a], c), told[a] => k = ChannelKey(c),
           k \notin Recorded(cur[a], c, first[a])
    PROVE  Uncounted(a)
<1>1. first[a] \in BOOLEAN /\ told[a] \in BOOLEAN BY DEF Shapes
<1>2. ~first[a]
  <2>1. SUFFICES ASSUME first[a] = TRUE PROVE FALSE BY <1>1
  <2>2. k \in Recorded(cur[a], c, TRUE) BY AskedIs
  <2> QED BY <2>1, <2>2
<1>3. ~told[a]
  <2>1. SUFFICES ASSUME told[a], first[a] = FALSE PROVE FALSE BY <1>1, <1>2
  <2>2. k \in Recorded(cur[a], c, FALSE) BY <2>1, AskedIs
  <2> QED BY <2>1, <2>2
<1> QED BY <1>2, <1>3 DEF Uncounted

LEMMA PublishSends ==
    ASSUME Shapes, Rows, NEW a \in Actors, pc[a] = "record", publish(a), Advance(a, TRUE)
    PROVE  /\ DOMAIN sent' = Keys
           /\ \A k \in Keys : sent'[k] = sent[k] \/ IsSend(a, k)
<1> DEFINE c == Head(todo[a])
           fresh == IF told[a] THEN {ChannelKey(c)} ELSE Keys
<1>1. sent' = IF a = "release" THEN sent
              ELSE [k \in Keys |-> IF k \in Asked(cur[a], c) \cap fresh THEN Append(sent[k], 0) ELSE sent[k]]
  BY DEF publish, Asked
<1> HIDE DEF fresh
<1>2. DOMAIN sent' = Keys BY <1>1 DEF Shapes
<1>3. CASE a = "release" BY <1>1, <1>2, <1>3
<1>4. CASE a \in Consumers
  <2>0. a # "release" BY <1>4, CapsAssumption
  <2>1. \A k \in Asked(cur[a], c) : (told[a] => k = ChannelKey(c)) => Pending(a, k) /\ ~Pending(a, k)'
    BY <1>4, ConsumerAdvance DEF Rows
  <2>2. \A b \in Actors \ {a} : UNCHANGED Row(b) BY AdvanceOwn
  <2>3. ASSUME NEW k \in Keys PROVE sent'[k] = sent[k] \/ IsSend(a, k)
    <3>1. CASE k \in Asked(cur[a], c) /\ k \in fresh
      <4>1. sent'[k] = Append(sent[k], 0) BY <1>1, <2>0, <3>1
      <4>2. told[a] => k = ChannelKey(c) BY <3>1 DEF fresh
      <4>3. Pending(a, k) /\ ~Pending(a, k)' BY <2>1, <3>1, <4>2
      <4>4. Coming(k) >= 1 /\ Coming(k)' = Coming(k) - 1 BY <1>4, <2>2, <4>3, Moves
      <4>5. k \notin Keyed(a) => Uncounted(a) BY <3>1, <4>2, SentUncounted DEF Keyed
      <4> QED BY <1>4, <4>1, <4>4, <4>5 DEF IsSend, Sends
    <3>2. CASE ~(k \in Asked(cur[a], c) /\ k \in fresh) BY <1>1, <2>0, <3>2
    <3> QED BY <3>1, <3>2
  <2> QED BY <1>2, <2>3
<1> QED BY <1>3, <1>4 DEF Actors

\* What the faults leave over what is owed, before and after a step.
LEMMA LeftOver ==
    ASSUME NEW f \in Nat, NEW g \in Nat, NEW o \in Nat, NEW p \in Nat
    PROVE  /\ g = f /\ p <= o => g - p >= f - o
           /\ g = f /\ p + 1 <= o => g - p > f - o
           /\ g = f + 1 /\ p <= o + 1 => g - p >= f - o
           /\ g = f + 1 /\ p <= o => g - p > f - o
OBVIOUS

\* The rows of the actors after record(), and what is owed.
LEMMA AdvanceRows ==
    ASSUME Shapes, Rows, NEW a \in Actors, NEW published \in BOOLEAN, Advance(a, published), pc[a] = "record"
    PROVE  /\ Rows' /\ \A k : Coming(k)' <= Coming(k)
           /\ Owed' <= Owed + 1
           /\ published => Owed' <= Owed
           /\ published /\ a \in Consumers /\ Uncounted(a) => Owed' + 1 <= Owed
<1>1. \A b \in Actors \ {a} : UNCHANGED Row(b) BY AdvanceOwn
<1>2. a \in Consumers => /\ ConsumerRow(a)'
                         /\ \A k : Pending(a, k)' => Pending(a, k)
                         /\ published => ~Uncounted(a)'
  BY ConsumerAdvance DEF Rows
<1>3. Rows' BY <1>1, <1>2, Moves
<1>4. \A k : Coming(k)' <= Coming(k) BY <1>1, <1>2, Moves
<1>5. Owed' <= Owed + 1 BY <1>1, Moves
<1>6. published => Owed' <= Owed BY <1>1, <1>2, Moves
<1>7. published /\ a \in Consumers /\ Uncounted(a) => Owed' + 1 <= Owed BY <1>1, <1>2, Moves
<1> QED BY <1>3, <1>4, <1>5, <1>6, <1>7

LEMMA RecordKeeps ==
    ASSUME CapsInv, NEW a \in Actors, record(a)
    PROVE  CapsInv'
<1> DEFINE ks == Keyed(a)
<1>0. Shapes /\ Rows /\ Bounded BY DEF CapsInv
<1>1. pc[a] = "record" /\ increment(ks, ks) /\ publish(a) /\ Advance(a, TRUE) /\ faults' = faults BY DEF record
<1> HIDE DEF ks
<1>2. /\ count' \in [Keys -> Nat] /\ ttl' \in [Keys -> Nat]
      /\ \A k \in Keys : IF k \in ks THEN Counts(k) ELSE Half(k)
  BY <1>0, <1>1, IncrementCounts
<1>3. DOMAIN sent' = Keys /\ \A k \in Keys : sent'[k] = sent[k] \/ IsSend(a, k)
  BY <1>0, <1>1, PublishSends
<1>4. Shapes' BY <1>0, <1>1, <1>2, <1>3, AdvanceOwn DEF Shapes
<1>5. Rows' /\ (\A k : Coming(k)' <= Coming(k)) /\ Owed' <= Owed
      /\ (a \in Consumers /\ Uncounted(a) => Owed' + 1 <= Owed)
  BY <1>0, <1>1, AdvanceRows
<1>6. faults \in Nat /\ faults' \in Nat /\ Owed \in Nat /\ Owed' \in Nat BY <1>0, <1>1, Small DEF Shapes
<1>7. faults' - Owed' >= faults - Owed BY <1>1, <1>5, <1>6, LeftOver
<1>8. ASSUME NEW k \in Keys PROVE LawOf(k)'
  <2>1. CASE sent'[k] = sent[k]
    <3>1. CASE k \in ks BY <1>0, <1>2, <1>5, <1>6, <1>7, <2>1, <3>1, OtherCountedLawful
    <3>2. CASE k \notin ks
      <4>1. Stays(k) BY <1>2, <2>1, <3>2 DEF Stays, Half
      <4> QED BY <1>0, <1>5, <1>6, <1>7, <4>1, StaysLawful
    <3> QED BY <3>1, <3>2
  <2>2. CASE IsSend(a, k)
    <3>0. Sends(k) BY <2>2 DEF IsSend
    <3>1. CASE k \in ks BY <1>0, <1>2, <1>6, <1>7, <3>0, <3>1, CountedLawful
    <3>2. CASE k \notin ks
      <4>1. Owed' + 1 <= Owed BY <1>5, <2>2, <3>2 DEF IsSend, ks
      <4>2. faults' - Owed' > faults - Owed BY <1>1, <1>6, <4>1, LeftOver
      <4>3. Half(k) BY <1>2, <3>2
      <4> QED BY <1>0, <1>6, <3>0, <4>2, <4>3, UncountedLawful DEF Half
    <3> QED BY <3>1, <3>2
  <2> QED BY <1>3, <2>1, <2>2
<1> QED BY <1>4, <1>5, <1>8 DEF CapsInv, Bounded

\* A fault: whatever the keys are counted, and whether or not the message goes
\* out, what is left uncounted is paid for by the fault.
LEMMA FaultKeeps ==
    ASSUME CapsInv, NEW a \in Actors, NEW published \in BOOLEAN, pc[a] = "record", faults' = faults + 1,
           Advance(a, published), count' \in [Keys -> Nat], ttl' \in [Keys -> Nat], DOMAIN sent' = Keys,
           \A k \in Keys : Counts(k) \/ Half(k),
           \A k \in Keys : sent'[k] = sent[k] \/ (published /\ IsSend(a, k))
    PROVE  CapsInv'
<1>0. Shapes /\ Rows /\ Bounded BY DEF CapsInv
<1>1. faults \in Nat /\ faults' \in Nat /\ Owed \in Nat /\ Owed' \in Nat BY <1>0, Small DEF Shapes
<1>2. Shapes' BY <1>0, <1>1, AdvanceOwn DEF Shapes
<1>3. Rows' /\ (\A k : Coming(k)' <= Coming(k)) /\ Owed' <= Owed + 1 /\ (published => Owed' <= Owed)
  BY <1>0, AdvanceRows
<1>4. faults' - Owed' >= faults - Owed BY <1>1, <1>3, LeftOver
<1>5. published => faults' - Owed' > faults - Owed BY <1>1, <1>3, LeftOver
<1>6. ASSUME NEW k \in Keys PROVE LawOf(k)'
  <2>1. CASE sent'[k] = sent[k]
    <3>1. CASE Counts(k) BY <1>0, <1>1, <1>3, <1>4, <2>1, <3>1, OtherCountedLawful
    <3>2. CASE Half(k)
      <4>1. Stays(k) BY <2>1, <3>2 DEF Stays, Half
      <4> QED BY <1>0, <1>1, <1>3, <1>4, <4>1, StaysLawful
    <3> QED BY <3>1, <3>2
  <2>2. CASE published /\ IsSend(a, k)
    <3>0. Sends(k) BY <2>2 DEF IsSend
    <3>1. CASE Counts(k) BY <1>0, <1>1, <1>4, <3>0, <3>1, CountedLawful
    <3>2. CASE Half(k) BY <1>0, <1>1, <1>5, <2>2, <3>0, <3>2, UncountedLawful DEF Half
    <3> QED BY <3>1, <3>2
  <2> QED BY <2>1, <2>2
<1> QED BY <1>2, <1>3, <1>6 DEF CapsInv, Bounded

LEMMA RenderFailsKeeps ==
    ASSUME CapsInv, NEW a \in Actors, RenderFails(a)
    PROVE  CapsInv'
<1>1. /\ pc[a] = "record" /\ faults' = faults + 1 /\ Advance(a, FALSE)
      /\ ttl' = ttl /\ sent' = sent /\ count' = count
  BY DEF RenderFails, redis
<1>2. count' \in [Keys -> Nat] /\ ttl' \in [Keys -> Nat] /\ DOMAIN sent' = Keys BY <1>1 DEF CapsInv, Shapes
<1>3. \A k \in Keys : Half(k) BY <1>1 DEF Half
<1> QED BY <1>1, <1>2, <1>3, FaultKeeps

LEMMA PublishFailsKeeps ==
    ASSUME CapsInv, NEW a \in Actors, PublishFails(a)
    PROVE  CapsInv'
<1>1. /\ pc[a] = "record" /\ faults' = faults + 1 /\ Advance(a, FALSE)
      /\ increment(Keyed(a), Keyed(a)) /\ sent' = sent
  BY DEF PublishFails
<1>2. /\ count' \in [Keys -> Nat] /\ ttl' \in [Keys -> Nat]
      /\ \A k \in Keys : IF k \in Keyed(a) THEN Counts(k) ELSE Half(k)
  BY <1>1, IncrementCounts DEF CapsInv
<1>3. DOMAIN sent' = Keys BY <1>1 DEF CapsInv, Shapes
<1> QED BY <1>1, <1>2, <1>3, FaultKeeps

LEMMA RecordCutShortKeeps ==
    ASSUME CapsInv, NEW a \in Actors, RecordCutShort(a)
    PROVE  CapsInv'
<1>0. Shapes /\ Rows BY DEF CapsInv
<1>1. pc[a] = "record" /\ faults' = faults + 1 BY DEF RecordCutShort
<1>2. PICK q \in Keyed(a) :
         \/ /\ increment(Keyed(a) \ {q}, Keyed(a) \ {q}) /\ sent' = sent /\ Advance(a, FALSE)
         \/ /\ ~IsCooldown(q)
            /\ \E counted \in {Keyed(a) \ {q}, Keyed(a)} : increment(counted, Keyed(a) \ {q})
            /\ publish(a) /\ Advance(a, TRUE)
  BY DEF RecordCutShort, IsCooldown
<1>3. CASE increment(Keyed(a) \ {q}, Keyed(a) \ {q}) /\ sent' = sent /\ Advance(a, FALSE)
  <2>1. /\ count' \in [Keys -> Nat] /\ ttl' \in [Keys -> Nat]
        /\ \A k \in Keys : IF k \in Keyed(a) \ {q} THEN Counts(k) ELSE Half(k)
    BY <1>0, <1>3, IncrementCounts
  <2>2. DOMAIN sent' = Keys BY <1>0, <1>3 DEF Shapes
  <2> QED BY <1>1, <1>3, <2>1, <2>2, FaultKeeps
<1>4. ASSUME NEW counted \in {Keyed(a) \ {q}, Keyed(a)}, increment(counted, Keyed(a) \ {q}),
             ~IsCooldown(q), publish(a), Advance(a, TRUE)
      PROVE  CapsInv'
  <2>1. Keyed(a) \ {q} \subseteq counted /\ \A k \in counted \ (Keyed(a) \ {q}) : ~IsCooldown(k) BY <1>4
  <2>2. /\ count' \in [Keys -> Nat] /\ ttl' \in [Keys -> Nat]
        /\ \A k \in Keys : IF k \in Keyed(a) \ {q} THEN Counts(k) ELSE Half(k)
    BY <1>0, <1>4, <2>1, IncrementCounts
  <2>3. DOMAIN sent' = Keys /\ \A k \in Keys : sent'[k] = sent[k] \/ IsSend(a, k)
    BY <1>0, <1>1, <1>4, PublishSends
  <2> QED BY <1>1, <1>4, <2>2, <2>3, FaultKeeps
<1> QED BY <1>2, <1>3, <1>4

\* A step that neither sends nor counts: what remains to show is what it makes
\* of its actor, and that what it announces is below its caps.
LEMMA QuietKeeps ==
    ASSUME CapsInv, UNCHANGED <<count, ttl, sent, faults>>, Shapes',
           NEW a \in Actors, \A b \in Actors \ {a} : UNCHANGED Row(b),
           a \in Consumers =>
              /\ ConsumerRow(a)' /\ ~Uncounted(a)'
              /\ \A k \in Keys : (Pending(a, k)' => Pending(a, k)) \/ count[k] < Cap(k)
    PROVE  CapsInv'
<1>0. Shapes /\ Rows /\ Bounded BY DEF CapsInv
<1>1. faults \in Nat /\ faults' = faults /\ faults' \in Nat BY <1>0 DEF Shapes
<1>2. Rows' BY <1>0, Moves
<1>3. faults' - Owed' >= faults - Owed
  <2>1. Owed' <= Owed BY Moves
  <2>2. Owed \in Nat /\ Owed' \in Nat BY Small
  <2> QED BY <1>1, <2>1, <2>2, LeftOver
<1>4. ASSUME NEW k \in Keys PROVE LawOf(k)'
  <2>1. Coming(k)' <= Coming(k) \/ count[k] < Cap(k) BY Moves
  <2>2. Stays(k) BY DEF Stays
  <2> QED BY <1>0, <1>1, <1>3, <2>1, <2>2, StaysLawful
<1> QED BY <1>2, <1>4 DEF CapsInv, Bounded

\* An actor that leaves has nothing to come.
LEMMA LeaveKeeps ==
    ASSUME CapsInv, NEW a \in Actors, pc[a] = "check", todo[a] = <<>>, Leave(a),
           UNCHANGED <<count, ttl, sent, faults>>
    PROVE  CapsInv'
<1>0. Shapes /\ Rows BY DEF CapsInv
<1>1. Shapes' BY <1>0, LeaveOwn DEF Shapes
<1>2. \A b \in Actors \ {a} : UNCHANGED Row(b) BY <1>0, LeaveOwn
<1>3. ASSUME a \in Consumers
      PROVE  ConsumerRow(a)' /\ ~Uncounted(a)' /\ \A k : ~Pending(a, k)'
  <2>1. /\ pc'[a] = "idle" /\ kept'[a] = <<>> /\ todo'[a] = <<>> /\ open'[a] = open[a]
        /\ first'[a] /\ ~told'[a]
    BY <1>0, LeaveOwn
  <2>2. <<>> \in Seq(AllChannels) OBVIOUS
  <2>3. open[a] = 0 BY <1>0, <1>3 DEF Rows, ConsumerRow, Asking
  <2>4. ~Asking(a)' BY <2>1 DEF Asking
  <2>5. ConsumerRow(a)' BY <2>1, <2>2, <2>3, <2>4, EmptyList DEF ConsumerRow
  <2>6. Passed(a)' = {} /\ FoundOpen(a)' = {} BY <2>1, <2>4, EmptyList DEF Passed, FoundOpen
  <2>7. \A k : ~Pending(a, k)' BY <2>6 DEF Pending
  <2> QED BY <2>1, <2>5, <2>7 DEF Uncounted
<1> QED BY <1>1, <1>2, <1>3, QuietKeeps

LEMMA HoldKeeps ==
    ASSUME CapsInv, NEW a \in Actors, Hold(a)
    PROVE  CapsInv'
BY LeaveKeeps DEF Hold, redis

LEMMA DispatchKeeps ==
    ASSUME CapsInv, NEW a \in Actors, Dispatch(a)
    PROVE  CapsInv'
<1>0. Shapes /\ Rows BY DEF CapsInv
<1>1. UNCHANGED <<count, ttl, sent, faults>> /\ pc[a] = "check" /\ todo[a] = <<>> BY DEF Dispatch, redis
<1>2. CASE kept[a] = <<>> BY <1>1, <1>2, LeaveKeeps DEF Dispatch
<1>3. CASE kept[a] # <<>>
  <2>1. /\ pc' = [pc EXCEPT ![a] = "record"]
        /\ todo' = [todo EXCEPT ![a] = kept[a]] /\ kept' = [kept EXCEPT ![a] = <<>>]
        /\ cur' = cur /\ open' = open /\ first' = first /\ told' = told
    BY <1>3 DEF Dispatch
  <2>2. Shapes' BY <1>0, <1>1, <2>1 DEF Shapes
  <2>3. \A b \in Actors \ {a} : UNCHANGED Row(b) BY <2>1 DEF Row
  <2>4. ASSUME a \in Consumers
        PROVE  ConsumerRow(a)' /\ ~Uncounted(a)' /\ \A k : Pending(a, k)' => Pending(a, k)
    <3>0. ConsumerRow(a) BY <1>0, <2>4 DEF Rows
    <3>1. /\ pc'[a] = "record" /\ todo'[a] = kept[a] /\ kept'[a] = <<>> /\ open'[a] = open[a]
          /\ cur'[a] = cur[a] /\ first'[a] = first[a] /\ told'[a] = told[a]
      BY <1>0, <2>1 DEF Shapes
    <3>2. <<>> \in Seq(AllChannels) OBVIOUS
    <3>3. ~Asking(a) /\ ~Asking(a)' BY <1>1, <3>1 DEF Asking
    <3>4. ConsumerRow(a)' BY <1>1, <1>3, <3>0, <3>1, <3>2, <3>3, EmptyList DEF ConsumerRow
    <3>5. Passed(a)' = Passed(a) /\ FoundOpen(a)' = {} BY <1>1, <3>1, <3>3 DEF Passed, FoundOpen
    <3>6. \A k : Pending(a, k)' => Pending(a, k) BY <3>1, <3>5 DEF Pending
    <3>7. ~Uncounted(a)' BY <1>1, <3>0, <3>1 DEF Uncounted, ConsumerRow
    <3> QED BY <3>4, <3>6, <3>7
  <2> QED BY <1>1, <2>2, <2>3, <2>4, QuietKeeps
<1> QED BY <1>2, <1>3

LEMMA CapsLength ==
    ASSUME NEW t, NEW c
    PROVE  Len(CapsOf(t, c)) \in Nat /\ DOMAIN CapsOf(t, c) = 1..Len(CapsOf(t, c))
<1>1. CASE t \in Critical BY <1>1 DEF CapsOf
<1>2. CASE t \notin Critical /\ t \in Mandated BY <1>2 DEF CapsOf
<1>3. CASE t \notin Critical /\ t \notin Mandated BY <1>3 DEF CapsOf
<1> QED BY <1>1, <1>2, <1>3

\* The check: each counter that is found open is below its cap when it is read.
LEMMA CheckKeeps ==
    ASSUME CapsInv, NEW a \in Actors, check(a)
    PROVE  CapsInv'
<1> DEFINE c == Head(todo[a])
           caps == CapsOf(cur[a], c)
           full == open[a] < Len(caps) /\ capped(caps[open[a] + 1])
<1>0. Shapes /\ Rows BY DEF CapsInv
<1>1. /\ UNCHANGED <<count, ttl, sent, faults>>
      /\ pc[a] = "check" /\ todo[a] # <<>> /\ pc' = pc /\ cur' = cur /\ first' = first /\ told' = told
  BY DEF check, redis
<1>2. \/ /\ open[a] < Len(caps) /\ ~full
         /\ open' = [open EXCEPT ![a] = @ + 1] /\ todo' = todo /\ kept' = kept
      \/ /\ ~(open[a] < Len(caps) /\ ~full)
         /\ open' = [open EXCEPT ![a] = 0] /\ todo' = [todo EXCEPT ![a] = Tail(@)]
         /\ kept' = [kept EXCEPT ![a] = IF full THEN @ ELSE Append(@, c)]
  BY Zenon DEF check
<1> HIDE DEF full
<1>3. Shapes' BY <1>0, <1>1, <1>2 DEF Shapes
<1>4. ASSUME NEW b \in Actors \ {a} PROVE UNCHANGED Row(b)
  <2>1. open'[b] = open[b] /\ todo'[b] = todo[b] /\ kept'[b] = kept[b] BY <1>0, <1>2 DEF Shapes
  <2> QED BY <1>1, <2>1 DEF Row
<1>5. ASSUME a \in Consumers
      PROVE  /\ ConsumerRow(a)' /\ ~Uncounted(a)'
             /\ \A k \in Keys : (Pending(a, k)' => Pending(a, k)) \/ count[k] < Cap(k)
  <2>0. ConsumerRow(a) /\ Asking(a) BY <1>0, <1>1, <1>5 DEF Rows, Asking
  <2>1. /\ pc'[a] = "check" /\ cur'[a] = cur[a] /\ first'[a] = first[a] /\ told'[a] = told[a] BY <1>1
  <2>2. ~Uncounted(a)' BY <2>1 DEF Uncounted
  <2>3. open[a] \in 0..Len(caps) /\ Len(caps) \in Nat
    <3>1. open[a] \in 0..Len(caps) BY <2>0 DEF ConsumerRow
    <3> QED BY <3>1, CapsLength
  <2>4. FoundOpen(a) = {caps[i] : i \in 1..open[a]} BY <2>0 DEF FoundOpen
  <2>5. CASE /\ open[a] < Len(caps) /\ ~full
             /\ open' = [open EXCEPT ![a] = @ + 1] /\ todo' = todo /\ kept' = kept
    <3>1. open'[a] = open[a] + 1 /\ todo'[a] = todo[a] /\ kept'[a] = kept[a] BY <1>0, <2>5 DEF Shapes
    <3>2. Asking(a)' /\ open'[a] \in 0..Len(caps) BY <1>1, <2>1, <2>3, <2>5, <3>1 DEF Asking
    <3>3. ConsumerRow(a)'
      <4>1. pc'[a] = pc[a] BY <1>1
      <4> QED BY <1>1, <2>0, <2>1, <3>1, <3>2, <4>1 DEF ConsumerRow
    <3>4. Passed(a)' = Passed(a) BY <1>1, <2>1, <3>1 DEF Passed
    <3>5. FoundOpen(a)' = {caps[i] : i \in 1..(open[a] + 1)} BY <2>1, <3>1, <3>2 DEF FoundOpen
    <3>6. FoundOpen(a)' \subseteq FoundOpen(a) \cup {caps[open[a] + 1]}
      <4>1. \A i \in 1..(open[a] + 1) : i \in 1..open[a] \/ i = open[a] + 1 BY <2>3
      <4> QED BY <2>4, <3>5, <4>1
    <3>7. ~capped(caps[open[a] + 1]) BY <2>5 DEF full
    <3>8. ASSUME NEW k \in Keys PROVE (Pending(a, k)' => Pending(a, k)) \/ count[k] < Cap(k)
      <4>1. CASE k = caps[open[a] + 1]
        <5>1. ~(count[k] >= Cap(k)) BY <3>7, <4>1 DEF capped
        <5>2. count[k] \in Nat /\ Cap(k) \in Nat BY <1>0, KeyFacts DEF Shapes
        <5> QED BY <5>1, <5>2
      <4>2. CASE k # caps[open[a] + 1] BY <2>1, <3>4, <3>6, <4>2 DEF Pending
      <4> QED BY <4>1, <4>2
    <3> QED BY <2>2, <3>3, <3>8
  <2>6. CASE /\ ~(open[a] < Len(caps) /\ ~full)
             /\ open' = [open EXCEPT ![a] = 0] /\ todo' = [todo EXCEPT ![a] = Tail(@)]
             /\ kept' = [kept EXCEPT ![a] = IF full THEN @ ELSE Append(@, c)]
    <3>1. /\ open'[a] = 0 /\ todo'[a] = Tail(todo[a])
          /\ kept'[a] = IF full THEN kept[a] ELSE Append(kept[a], c)
      BY <1>0, <2>6 DEF Shapes
    <3>2. /\ c \in Elems(todo[a]) /\ c \in AllChannels /\ Elems(todo[a]) = Elems(Tail(todo[a])) \cup {c}
          /\ c \notin Elems(Tail(todo[a])) /\ Tail(todo[a]) \in Seq(AllChannels) /\ Distinct(Tail(todo[a]))
      BY <1>1, <2>0, ListTail DEF ConsumerRow
    <3>3. c \notin Elems(kept[a]) BY <1>1, <2>0, <3>2 DEF ConsumerRow
    <3>4. /\ Append(kept[a], c) \in Seq(AllChannels) /\ Distinct(Append(kept[a], c))
          /\ Elems(Append(kept[a], c)) = Elems(kept[a]) \cup {c}
      BY <2>0, <3>2, <3>3, ListAppend DEF ConsumerRow
    <3>5. /\ kept[a] \in Seq(AllChannels) /\ Distinct(kept[a])
          /\ Elems(todo[a]) \cap Elems(kept[a]) = {} /\ first[a] /\ ~told[a]
      BY <1>1, <2>0 DEF ConsumerRow
    <3>6. FoundOpen(a)' = {}
      <4>1. 1..0 = {} OBVIOUS
      <4> QED BY <3>1, <4>1 DEF FoundOpen
    <3>7. ~full => Asked(cur[a], c) = FoundOpen(a)
      <4>1. ~full => open[a] = Len(caps) BY <2>3, <2>6
      <4>2. DOMAIN caps = 1..Len(caps) BY CapsLength
      <4> QED BY <2>4, <4>1, <4>2 DEF Asked
    <3> HIDE DEF c, caps
    <3>8. Elems(kept'[a]) = IF full THEN Elems(kept[a]) ELSE Elems(kept[a]) \cup {c} BY <3>1, <3>4
    <3>9. ConsumerRow(a)'
      <4>1. kept'[a] \in Seq(AllChannels) /\ Distinct(kept'[a]) BY <3>1, <3>4, <3>5
      <4>2. todo'[a] \in Seq(AllChannels) /\ Distinct(todo'[a]) BY <3>1, <3>2
      <4>3. Elems(todo'[a]) \cap Elems(kept'[a]) = {} BY <3>1, <3>2, <3>5, <3>8
      <4>4. Asking(a)' => open'[a] \in 0..Len(CapsOf(cur'[a], Head(todo'[a])))
        <5>1. Len(CapsOf(cur'[a], Head(todo'[a]))) \in Nat BY CapsLength
        <5> QED BY <3>1, <5>1
      <4> QED BY <2>1, <3>1, <3>5, <4>1, <4>2, <4>3, <4>4 DEF ConsumerRow
    <3>10. Passed(a) = Elems(kept[a]) /\ Passed(a)' = Elems(kept'[a]) BY <1>1, <2>1 DEF Passed
    <3>11. ASSUME NEW k, Pending(a, k)' PROVE Pending(a, k)
      <4>1. PICK d \in Passed(a)' : k \in Asked(cur'[a], d) /\ (told'[a] => k = ChannelKey(d))
        BY <3>6, <3>11 DEF Pending
      <4>2. CASE d \in Passed(a) BY <2>1, <4>1, <4>2 DEF Pending
      <4>3. CASE d \notin Passed(a)
        <5>1. d = c /\ ~full BY <3>8, <3>10, <4>1, <4>3
        <5> QED BY <2>1, <3>7, <4>1, <5>1 DEF Pending
      <4> QED BY <4>2, <4>3
    <3> QED BY <2>2, <3>9, <3>11
  <2> QED BY <1>2, <2>5, <2>6
<1> QED BY <1>1, <1>3, <1>4, <1>5, QuietKeeps

LEMMA ArriveKeeps ==
    ASSUME CapsInv, NEW a \in Actors, NEW t \in Types, Arrive(a, t)
    PROVE  CapsInv'
<1>0. Shapes /\ Rows BY DEF CapsInv
<1>1. UNCHANGED <<count, ttl, sent, faults>> BY DEF Arrive, redis
<1>2. /\ pc[a] = "idle"
      /\ pc' = [pc EXCEPT ![a] = "check"] /\ cur' = [cur EXCEPT ![a] = t]
      /\ todo' = [todo EXCEPT ![a] = ChannelsOf[t]]
      /\ open' = open /\ kept' = kept /\ first' = first /\ told' = told
  BY DEF Arrive
<1>3. Shapes' BY <1>0, <1>1, <1>2 DEF Shapes
<1>4. \A b \in Actors \ {a} : UNCHANGED Row(b) BY <1>2 DEF Row
<1>5. ASSUME a \in Consumers
      PROVE  ConsumerRow(a)' /\ ~Uncounted(a)' /\ \A k : ~Pending(a, k)'
  <2>0. ConsumerRow(a) /\ ~Asking(a) BY <1>0, <1>2, <1>5 DEF Rows, Asking
  <2>1. /\ pc'[a] = "check" /\ cur'[a] = t /\ todo'[a] = ChannelsOf[t] /\ kept'[a] = kept[a]
        /\ open'[a] = open[a] /\ first'[a] = first[a] /\ told'[a] = told[a]
    BY <1>0, <1>2 DEF Shapes
  <2>2. ChannelsOf[t] \in Seq(AllChannels) /\ IsInjective(ChannelsOf[t]) BY CapsAssumption
  <2>3. Distinct(ChannelsOf[t]) BY <2>2 DEF Distinct, IsInjective
  <2>4. <<>> \in Seq(AllChannels) OBVIOUS
  <2>5. kept[a] = <<>> /\ open[a] = 0 /\ first[a] /\ ~told[a] BY <1>2, <2>0 DEF ConsumerRow
  <2>6. Len(CapsOf(t, Head(ChannelsOf[t]))) \in Nat
    <3> DEFINE d == Head(ChannelsOf[t])
    <3>1. CapsOf(t, d) \in {<<>>, <<CategoryKey(t), GlobalKey>>,
                            <<CooldownKey(t), CategoryKey(t), ChannelKey(d), GlobalKey>>} BY DEF CapsOf
    <3> QED BY <3>1
  <2>7. open'[a] = 0 /\ open'[a] \in 0..Len(CapsOf(cur'[a], Head(todo'[a]))) BY <2>1, <2>5, <2>6
  <2>8. ConsumerRow(a)' BY <2>1, <2>2, <2>3, <2>4, <2>5, <2>7, EmptyList DEF ConsumerRow
  <2>9. Passed(a)' = {} BY <2>1, <2>5, EmptyList DEF Passed
  <2>10. FoundOpen(a)' = {}
    <3>1. 1..0 = {} OBVIOUS
    <3> QED BY <2>7, <3>1 DEF FoundOpen
  <2>11. \A k : ~Pending(a, k)' BY <2>9, <2>10 DEF Pending
  <2>12. ~Uncounted(a)' BY <2>1 DEF Uncounted
  <2> QED BY <2>8, <2>11, <2>12
<1> QED BY <1>1, <1>3, <1>4, <1>5, QuietKeeps

LEMMA ReleaseKeeps ==
    ASSUME CapsInv, NEW t \in Types, Release(t)
    PROVE  CapsInv'
<1>0. Shapes BY DEF CapsInv
<1>1. UNCHANGED <<count, ttl, sent, faults>> BY DEF Release, redis
<1>2. /\ pc' = [pc EXCEPT !["release"] = "record"] /\ cur' = [cur EXCEPT !["release"] = t]
      /\ todo' = [todo EXCEPT !["release"] = ChannelsOf[t]]
      /\ open' = open /\ kept' = kept /\ first' = first /\ told' = told
  BY DEF Release
<1>3. Shapes' BY <1>0, <1>1, <1>2 DEF Shapes
<1>4. \A b \in Actors \ {"release"} : UNCHANGED Row(b) BY <1>2 DEF Row
<1>5. "release" \in Actors /\ "release" \notin Consumers BY CapsAssumption DEF Actors
<1> QED BY <1>1, <1>3, <1>4, <1>5, QuietKeeps

LEMMA InitHolds == Init => CapsInv
<1> SUFFICES ASSUME Init PROVE CapsInv OBVIOUS
<1>0. Consumers \subseteq Actors BY DEF Actors
<1>1. Shapes BY CapsAssumption DEF Init, Shapes
<1>2. <<>> \in Seq(AllChannels) OBVIOUS
<1>3. ASSUME NEW a \in Consumers
      PROVE  ConsumerRow(a) /\ ~Uncounted(a) /\ \A k : ~Pending(a, k)
  <2>1. /\ pc[a] = "idle" /\ first[a] /\ ~told[a] /\ todo[a] = <<>> /\ kept[a] = <<>> /\ open[a] = 0
    BY <1>0 DEF Init
  <2>2. ~Asking(a) BY <2>1 DEF Asking
  <2>3. ConsumerRow(a) BY <1>2, <2>1, <2>2, EmptyList DEF ConsumerRow
  <2>4. Passed(a) = {} /\ FoundOpen(a) = {} BY <2>1, <2>2, EmptyList DEF Passed, FoundOpen
  <2> QED BY <2>1, <2>3, <2>4 DEF Uncounted, Pending
<1>4. Owed = 0
  <2>1. {a \in Consumers : Uncounted(a)} = {} BY <1>3
  <2> QED BY <2>1, FS_EmptySet DEF Owed
<1>5. ASSUME NEW k PROVE Coming(k) = 0
  <2>1. {a \in Consumers : Pending(a, k)} = {} BY <1>3
  <2> QED BY <2>1, FS_EmptySet DEF Coming
<1>6. ASSUME NEW k \in Keys PROVE LawOf(k)
  <2>1. sent[k] = <<>> /\ ttl[k] = 0 /\ count[k] = 0 /\ faults = 0 BY <1>6 DEF Init
  <2>2. Cap(k) \in Nat /\ Window(k) \in Nat \ {0} /\ (~IsCooldown(k) => Cap(k) > 1) BY KeyFacts
  <2>3. <<>> \in Seq(Nat) /\ Len(<<>>) = 0 OBVIOUS
  <2>4. Aged(Window(k), <<>>) BY <2>3 DEF Aged
  <2>5. 0 \in 0..0 /\ faults - Owed = 0 /\ Crowd \in Nat \ {0} BY <1>4, <2>1, CrowdSize
  <2>6. Cool(Window(k), <<>>, 0, 0, 0, 0) BY <2>3, <2>5 DEF Cool
  <2>7. ~IsCooldown(k) => Shut(Cap(k), <<>>, 0) BY <2>2, <2>3, <2>5 DEF Shut
  <2> QED BY <1>5, <2>1, <2>2, <2>4, <2>5, <2>6, <2>7 DEF LawOf, Law
<1> QED BY <1>1, <1>3, <1>6 DEF CapsInv, Rows, Bounded

LEMMA NextKeeps == CapsInv /\ [Next]_vars => CapsInv'
<1> SUFFICES ASSUME CapsInv, [Next]_vars PROVE CapsInv' OBVIOUS
<1>1. CASE \E a \in Actors : Step(a) \/ RenderFails(a) \/ PublishFails(a) \/ RecordCutShort(a)
  <2>1. PICK a \in Actors : Step(a) \/ RenderFails(a) \/ PublishFails(a) \/ RecordCutShort(a) BY <1>1
  <2> QED BY <2>1, CheckKeeps, DispatchKeeps, HoldKeeps, RecordKeeps, RenderFailsKeeps,
            PublishFailsKeeps, RecordCutShortKeeps DEF Step
<1>2. CASE \E a \in Actors, t \in Types : Arrive(a, t) BY <1>2, ArriveKeeps
<1>3. CASE \E t \in Types : Release(t) BY <1>3, ReleaseKeeps
<1>4. CASE Tick BY <1>4, TickLawful DEF CapsInv
<1>5. CASE UNCHANGED vars
  <2>1. UNCHANGED <<count, ttl, sent, faults>> /\ UNCHANGED <<pc, cur, todo, open, kept, first, told>>
    BY <1>5 DEF vars, redis, actor
  <2>2. \A a \in Actors : UNCHANGED Row(a) BY <2>1 DEF Row
  <2>3. Shapes' BY <2>1 DEF CapsInv, Shapes
  <2>4. "release" \in Actors /\ "release" \notin Consumers BY CapsAssumption DEF Actors
  <2> QED BY <2>1, <2>2, <2>3, <2>4, QuietKeeps
<1> QED BY <1>1, <1>2, <1>3, <1>4, <1>5 DEF Next

-----------------------------------------------------------------------------
\* In any stretch of a window's length a cap lets through less than twice what
\* one opening of its counter does, which is the cap and one more for each other
\* consumer, and one more for each fault: whatever interleaves between the reads
\* of the counters and the record, whatever the types on the topics, the windows,
\* the channels and the number of events.
THEOREM CapsHold == Spec => []WindowBound
<1>1. CapsInv => WindowBound
  <2> SUFFICES ASSUME CapsInv, NEW k \in Keys
               PROVE  Len(sent[k]) <= faults + (IF k[1] = "cooldown" THEN Room(k) ELSE 2 * Room(k) - 1)
    BY DEF WindowBound
  <2>1. Given(IsCooldown(k), Cap(k), Window(k), sent[k], count[k], ttl[k], faults - Owed, Coming(k))
    BY GivenOf DEF CapsInv
  <2> DEFINE longest == IF IsCooldown(k) THEN Crowd ELSE 2 * (Cap(k) + Crowd - 1) - 1
  <2>2. Len(sent[k]) <= (faults - Owed) + longest BY <2>1, LawBounds
  <2>3. Owed \in Nat /\ faults \in Nat /\ Cap(k) \in Nat /\ Crowd \in Nat /\ Len(sent[k]) \in Nat
    <3>1. Aged(Window(k), sent[k]) BY <2>1 DEF Given, Law
    <3> QED BY <3>1, Small, KeyFacts, CrowdSize DEF CapsInv, Shapes, Aged
  <2>4. Room(k) = Cap(k) + Crowd - 1 BY DEF Room, Crowd
  <2>5. IsCooldown(k) => Cap(k) = 1 BY KeyFacts
  <2>6. longest \in Int /\ longest = IF k[1] = "cooldown" THEN Room(k) ELSE 2 * Room(k) - 1
    BY <2>3, <2>4, <2>5 DEF IsCooldown
  <2> HIDE DEF longest
  <2> QED BY <2>2, <2>3, <2>6
<1>2. Init => CapsInv BY InitHolds
<1>3. CapsInv /\ [Next]_vars => CapsInv' BY NextKeeps
<1> QED BY <1>1, <1>2, <1>3, PTL DEF Spec
=============================================================================
