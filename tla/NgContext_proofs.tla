--------------------------- MODULE NgContext_proofs ---------------------------
(***************************************************************************)
(* The two pointers between a UE and its context agree, the pool is exact, *)
(* a released context leaves and one without a UE stays in reach of what   *)
(* ends it, in every execution, for any numbers of places, subscribers and *)
(* gNBs.                                                                   *)
(***************************************************************************)
EXTENDS NgContext, FiniteSetTheorems, TLAPS

RanUes == [live : BOOLEAN, gnb : Gnbs \cup {NULL}, ue : Ues \cup {NULL},
           action : Actions, holding : BOOLEAN, cut : BOOLEAN]
AmfUes == [live : BOOLEAN, ran : Contexts \cup {NULL}, sub : Subs \cup {NULL}]
Phases == {"none", "known", "released"}
Events == [type : {"initial"}, gnb : Gnbs, sub : Subs \cup {NULL}, tmsi : BOOLEAN]
          \cup [type : {"5gmm"}, ran : Contexts, sub : Subs \cup {NULL}]
          \cup [type : {"uplink", "setup failure", "release request", "complete",
                        "partial reset", "holding"}, ran : Contexts]
          \cup [type : {"reset", "refused"}, gnb : Gnbs]

Worlds == [ran : [Contexts -> RanUes], free : Seq(Contexts), ue : [Ues -> AmfUes],
           pending : [Ues -> SUBSET UpdateKinds],
           radio : [Gnbs -> [Contexts -> Phases]], queue : Seq(Events)]

\* The type of what a handler computes, and what it must not break.
Good(w) == /\ w \in Worlds
           /\ \A c \in Contexts : w.ran[c].holding => w.ran[c].live
           /\ PointsBack(w)
           /\ Exact(w)
           /\ Leaving(w)

IInv == Good(Now)

\* No context in use names u.
Unnamed(w, u) == \A c \in Contexts : w.ran[c].live => w.ran[c].ue # u

-----------------------------------------------------------------------------
\* amf_ue_t and ran_ue_t places are not the null pointer.
LEMMA NotNull == NULL \notin Contexts /\ NULL \notin Ues /\ NULL \notin Gnbs
  BY NgAssumption

\* The pool does not change, and no place changes its use.
LEMMA ExactFrame ==
    ASSUME NEW w, Exact(w), NEW v, v.free = w.free,
           \A d \in Contexts : v.ran[d].live = w.ran[d].live
    PROVE  Exact(v)
  BY DEF Exact

\* No timer is stopped and no context is commanded without one.
LEMMA LeavingFrame ==
    ASSUME NEW w, Leaving(w), NEW v, v.queue = w.queue,
           \A d \in Contexts : v.ran[d].live =>
              \/ v.ran[d].action = "none" \/ v.ran[d].holding
              \/ /\ w.ran[d].live /\ v.ran[d].action = w.ran[d].action
                 /\ v.ran[d].holding = w.ran[d].holding
    PROVE  Leaving(v)
  BY DEF Leaving, Awaited

\* A place is taken from the pool, and one is given back.
LEMMA ExactTake ==
    ASSUME NEW w, Exact(w), w.free \in Seq(Contexts), w.free # <<>>,
           NEW v, v.free = Tail(w.free),
           \A d \in Contexts : v.ran[d].live <=> w.ran[d].live \/ d = Head(w.free)
    PROVE  Exact(v)
<1> DEFINE f == w.free
<1>1. /\ Len(f) \in Nat \ {0} /\ DOMAIN f = 1..Len(f)
      /\ DOMAIN Tail(f) = 1..(Len(f) - 1)
      /\ \A i \in 1..(Len(f) - 1) : Tail(f)[i] = f[i + 1]
      /\ Head(f) = f[1]
  OBVIOUS
<1> HIDE DEF f
<1>2. /\ \A i, j \in 1..Len(f) : f[i] = f[j] => i = j
      /\ \A d \in Contexts : w.ran[d].live <=> \A i \in 1..Len(f) : f[i] # d
  BY <1>1 DEF Exact, f
<1>3. \A i, j \in DOMAIN Tail(f) : Tail(f)[i] = Tail(f)[j] => i = j
  BY <1>1, <1>2
<1>4. ASSUME NEW d \in Contexts
      PROVE  (\A i \in DOMAIN Tail(f) : Tail(f)[i] # d) <=> w.ran[d].live \/ d = Head(f)
  <2>1. CASE d = f[1]
    <3>1. \A i \in 1..(Len(f) - 1) : f[i + 1] # d
      BY <1>1, <1>2, <2>1
    <3> QED
      BY <1>1, <2>1, <3>1
  <2>2. CASE d # f[1]
    <3>1. ASSUME NEW i \in 1..Len(f), f[i] = d PROVE i - 1 \in 1..(Len(f) - 1) /\ Tail(f)[i - 1] = d
      BY <1>1, <2>2, <3>1
    <3>2. (\A i \in 1..(Len(f) - 1) : Tail(f)[i] # d) => \A i \in 1..Len(f) : f[i] # d
      BY <3>1
    <3>3. (\A i \in 1..Len(f) : f[i] # d) => \A i \in 1..(Len(f) - 1) : Tail(f)[i] # d
      BY <1>1
    <3> QED
      BY <1>1, <1>2, <2>2, <3>2, <3>3
  <2> QED
    BY <2>1, <2>2
<1> QED
  BY <1>3, <1>4 DEF Exact, f

LEMMA ExactGive ==
    ASSUME NEW w, Exact(w), w.free \in Seq(Contexts), NEW S \in SUBSET Contexts,
           NEW s \in Seq(S), \A i, j \in DOMAIN s : s[i] = s[j] => i = j,
           \A c \in S : w.ran[c].live /\ \E i \in DOMAIN s : s[i] = c,
           NEW v, v.free = w.free \o s,
           \A d \in Contexts : v.ran[d].live <=> w.ran[d].live /\ d \notin S
    PROVE  Exact(v)
<1> DEFINE f == w.free
           n == Len(w.free)
           m == Len(s)
           h == v.free
<1>1. /\ n \in Nat /\ DOMAIN f = 1..n /\ m \in Nat /\ DOMAIN s = 1..m
      /\ \A i \in 1..m : s[i] \in S
  OBVIOUS
<1>2. DOMAIN h = 1..(n + m)
      /\ \A i \in 1..(n + m) : h[i] = IF i <= n THEN f[i] ELSE s[i - n]
  OBVIOUS
<1>3. /\ \A i, j \in 1..n : f[i] = f[j] => i = j
      /\ \A d \in Contexts : w.ran[d].live <=> \A i \in 1..n : f[i] # d
  BY <1>1 DEF Exact
<1>4. \A i, j \in 1..m : s[i] = s[j] => i = j
  BY <1>1
<1>5. \A c \in S : w.ran[c].live /\ \E i \in 1..m : s[i] = c
  BY <1>1
<1> HIDE DEF f, n, m, h
<1>6. \A i \in 1..n, j \in 1..m : f[i] # s[j]
  BY <1>1, <1>3, <1>5
<1>7. \A i \in 1..n : i \in 1..(n + m) /\ h[i] = f[i]
  BY <1>1, <1>2
<1>8. \A j \in 1..m : j + n \in 1..(n + m) /\ h[j + n] = s[j]
  <2> SUFFICES ASSUME NEW j \in 1..m PROVE j + n \in 1..(n + m) /\ h[j + n] = s[j]
    OBVIOUS
  <2>1. j + n \in 1..(n + m) /\ ~(j + n <= n) /\ (j + n) - n = j
    BY <1>1
  <2> QED
    BY <1>2, <2>1
<1>9. ASSUME NEW k \in 1..(n + m)
      PROVE  (k \in 1..n /\ h[k] = f[k]) \/ (k - n \in 1..m /\ h[k] = s[k - n] /\ k > n)
  <2>1. k \in 1..n \/ (k - n \in 1..m /\ ~(k <= n) /\ k > n)
    BY <1>1
  <2> QED
    BY <1>2, <1>7, <2>1
<1>10. ASSUME NEW i \in 1..(n + m), NEW j \in 1..(n + m), h[i] = h[j] PROVE i = j
  <2>1. /\ (i \in 1..n /\ h[i] = f[i]) \/ (i - n \in 1..m /\ h[i] = s[i - n])
        /\ (j \in 1..n /\ h[j] = f[j]) \/ (j - n \in 1..m /\ h[j] = s[j - n])
    BY <1>9
  <2>2. CASE i \in 1..n /\ h[i] = f[i]
    <3>1. CASE j - n \in 1..m /\ h[j] = s[j - n]
      <4>1. f[i] = s[j - n]
        BY <1>10, <2>2, <3>1
      <4> QED
        BY <1>6, <2>2, <3>1, <4>1
    <3>2. CASE j \in 1..n /\ h[j] = f[j]
      <4>1. f[i] = f[j]
        BY <1>10, <2>2, <3>2
      <4> QED
        BY <1>3, <2>2, <3>2, <4>1
    <3> QED
      BY <2>1, <3>1, <3>2
  <2>3. CASE i - n \in 1..m /\ h[i] = s[i - n]
    <3>1. j - n \in 1..m /\ h[j] = s[j - n]
      <4> SUFFICES ASSUME j \in 1..n, h[j] = f[j] PROVE FALSE
        BY <2>1
      <4>1. f[j] = s[i - n]
        BY <1>10, <2>3
      <4> QED
        BY <1>6, <2>3, <4>1
    <3>2. i - n = j - n
      <4>1. s[i - n] = s[j - n]
        BY <1>10, <2>3, <3>1
      <4> QED
        BY <1>4, <2>3, <3>1, <4>1
    <3> QED
      BY <1>1, <3>2
  <2> QED
    BY <2>1, <2>2, <2>3
<1>11. ASSUME NEW d \in Contexts
       PROVE  v.ran[d].live <=> \A i \in 1..(n + m) : h[i] # d
  <2>1. (\A i \in 1..(n + m) : h[i] # d) => w.ran[d].live /\ d \notin S
    <3> SUFFICES ASSUME \A i \in 1..(n + m) : h[i] # d
                 PROVE  w.ran[d].live /\ d \notin S
      OBVIOUS
    <3>1. \A i \in 1..n : f[i] # d
      BY <1>7, Zenon
    <3>2. ASSUME NEW j \in 1..m PROVE s[j] # d
      <4>1. j + n \in 1..(n + m) /\ h[j + n] = s[j]
        BY <1>8
      <4>2. h[j + n] # d
        BY <4>1
      <4> QED
        BY <4>1, <4>2
    <3> QED
      BY <1>3, <1>5, <3>1, <3>2, Zenon
  <2>2. ASSUME w.ran[d].live, d \notin S, NEW i \in 1..(n + m), h[i] = d PROVE FALSE
    BY <1>1, <1>3, <1>9, <2>2
  <2> QED
    BY <2>1, <2>2
<1> QED
  BY <1>2, <1>10, <1>11 DEF Exact, h

\* ran_ue_add() of a place of the pool.
LEMMA AddRanGood ==
    ASSUME NEW w, Good(w), w.free # <<>>, NEW c \in Contexts, c = Head(w.free), NEW g \in Gnbs
    PROVE  Good(AddRan(w, c, g)) /\ AddRan(w, c, g).ue = w.ue
<1> DEFINE v == AddRan(w, c, g)
           r == [live |-> TRUE, gnb |-> g, ue |-> NULL, action |-> "none",
                 holding |-> FALSE, cut |-> FALSE]
           R == [w.ran EXCEPT ![c] = r]
           Q == [w.radio EXCEPT ![g][c] = "known"]
<1> HIDE DEF r
<1>1. w \in Worlds
  BY DEF Good
<1>2. v = [w EXCEPT !.ran = R, !.free = Tail(w.free), !.radio = Q]
  BY DEF AddRan, r
<1>3. r \in RanUes /\ r.ue = NULL /\ r.holding = FALSE
  BY DEF RanUes, Actions, r
<1>4. R \in [Contexts -> RanUes]
  BY <1>1, <1>3 DEF Worlds
<1>5. Q \in [Gnbs -> [Contexts -> Phases]]
  BY <1>1 DEF Worlds, Phases
<1>6. Tail(w.free) \in Seq(Contexts)
  BY <1>1 DEF Worlds
<1>7. v \in Worlds
  BY <1>1, <1>2, <1>4, <1>5, <1>6 DEF Worlds
<1>8. v.ran = R /\ v.ue = w.ue
  BY <1>1, <1>2 DEF Worlds
<1>9. \A d \in Contexts : v.ran[d] = IF d = c THEN r ELSE w.ran[d]
  BY <1>1, <1>8 DEF Worlds
<1>10. PointsBack(v)
  BY <1>3, <1>8, <1>9 DEF Good, PointsBack
<1>11. v.free = Tail(w.free) /\ v.queue = w.queue /\ w.free \in Seq(Contexts)
  BY <1>1, <1>2 DEF Worlds
<1>12. r.live /\ r.action = "none"
  BY DEF r
<1> HIDE DEF v
<1>13. Exact(v)
  BY <1>9, <1>11, <1>12, ExactTake DEF Good
<1>14. Leaving(v)
  BY <1>9, <1>11, <1>12, LeavingFrame DEF Good
<1> QED
  BY <1>3, <1>7, <1>8, <1>9, <1>10, <1>13, <1>14 DEF Good, v

\* ngap_send_ran_ue_context_release_command() leaves the pointers alone.
LEMMA CommandGood ==
    ASSUME NEW w, Good(w), NEW c \in Contexts, w.ran[c].live, NEW a \in Actions
    PROVE  /\ Good(Command(w, c, a))
           /\ Command(w, c, a).ue = w.ue
           /\ \A d \in Contexts : /\ Command(w, c, a).ran[d].live = w.ran[d].live
                                  /\ Command(w, c, a).ran[d].ue = w.ran[d].ue
<1> DEFINE v == Command(w, c, a)
           x == IF w.radio[w.ran[c].gnb][c] = "none" \/ w.ran[c].cut
                THEN w.radio[w.ran[c].gnb][c] ELSE "released"
           R == [w.ran EXCEPT ![c].action = a, ![c].holding = TRUE]
           Q == [w.radio EXCEPT ![w.ran[c].gnb][c] = x]
<1>1. w \in Worlds
  BY DEF Good
<1>2. v = [w EXCEPT !.ran = R, !.radio = Q]
  BY DEF Command
<1>3. R \in [Contexts -> RanUes]
  <2> DEFINE r == [w.ran[c] EXCEPT !.action = a, !.holding = TRUE]
  <2>1. w.ran \in [Contexts -> RanUes]
    BY <1>1 DEF Worlds
  <2>2. r \in RanUes
    BY <2>1 DEF RanUes
  <2>3. R = [w.ran EXCEPT ![c] = r]
    BY <2>1 DEF RanUes
  <2> HIDE DEF r, R
  <2> QED
    BY <2>1, <2>2, <2>3
<1>4. Q \in [Gnbs -> [Contexts -> Phases]]
  <2>1. w.radio \in [Gnbs -> [Contexts -> Phases]]
    BY <1>1 DEF Worlds
  <2>2. w.ran[c].gnb \in Gnbs => x \in Phases
    BY <2>1 DEF Phases
  <2> QED
    BY <2>1, <2>2
<1>5. v \in Worlds
  BY <1>1, <1>2, <1>3, <1>4 DEF Worlds
<1>6. v.ran = R /\ v.ue = w.ue
  BY <1>1, <1>2 DEF Worlds
<1>7. \A d \in Contexts : /\ v.ran[d].live = w.ran[d].live
                          /\ v.ran[d].ue = w.ran[d].ue
                          /\ d # c => /\ v.ran[d].holding = w.ran[d].holding
                                      /\ v.ran[d].action = w.ran[d].action
                          /\ d = c => v.ran[d].holding
  <2> SUFFICES ASSUME NEW d \in Contexts
               PROVE  /\ R[d].live = w.ran[d].live /\ R[d].ue = w.ran[d].ue
                      /\ d # c => /\ R[d].holding = w.ran[d].holding
                                  /\ R[d].action = w.ran[d].action
                      /\ d = c => R[d].holding
    BY <1>6, ZenonT(60)
  <2>1. w.ran \in [Contexts -> RanUes]
    BY <1>1 DEF Worlds
  <2>2. R[d] = IF d = c THEN [w.ran[c] EXCEPT !.action = a, !.holding = TRUE] ELSE w.ran[d]
    BY <2>1
  <2> QED
    BY <2>1, <2>2 DEF RanUes
<1>8. \A d \in Contexts : v.ran[d].holding => v.ran[d].live
  BY <1>7 DEF Good
<1>9. PointsBack(v)
  BY <1>6, <1>7, ZenonT(60) DEF Good, PointsBack
<1>10. v.free = w.free /\ v.queue = w.queue
  BY <1>1, <1>2 DEF Worlds
<1> HIDE DEF v
<1>11. Exact(v) /\ Leaving(v)
  BY <1>7, <1>10, ExactFrame, LeavingFrame DEF Good
<1> QED
  BY <1>5, <1>6, <1>7, <1>8, <1>9, <1>11 DEF Good, v

\* ran_ue_remove(): one context less names a UE.
LEMMA RemoveRanGood ==
    ASSUME NEW w, Good(w), NEW c \in Contexts, w.ran[c].live
    PROVE  /\ Good(RemoveRan(w, c))
           /\ RemoveRan(w, c).ue = w.ue
           /\ \A d \in Contexts : /\ RemoveRan(w, c).ran[d].live <=> w.ran[d].live /\ d # c
                                  /\ RemoveRan(w, c).ran[d].ue = w.ran[d].ue
<1> DEFINE v == RemoveRan(w, c)
           R == [w.ran EXCEPT ![c] = Freed(w.ran[c])]
<1>1. w \in Worlds /\ w.ran \in [Contexts -> RanUes]
  BY DEF Good, Worlds
<1>2. v = [w EXCEPT !.ran = R, !.free = Append(w.free, c)]
  BY DEF RemoveRan
<1>3. /\ Freed(w.ran[c]) \in RanUes /\ ~Freed(w.ran[c]).live
      /\ ~Freed(w.ran[c]).holding /\ Freed(w.ran[c]).ue = w.ran[c].ue
  BY <1>1, ZenonT(60) DEF RanUes, Actions, Freed
<1>4. R \in [Contexts -> RanUes]
  BY <1>1, <1>3
<1>5. v \in Worlds
  <2>1. Append(w.free, c) \in Seq(Contexts)
    BY <1>1 DEF Worlds
  <2> QED
    BY <1>1, <1>2, <1>4, <2>1 DEF Worlds
<1>6. v.ran = R /\ v.ue = w.ue
  BY <1>1, <1>2 DEF Worlds
<1>7. \A d \in Contexts : v.ran[d] = IF d = c THEN Freed(w.ran[c]) ELSE w.ran[d]
  BY <1>1, <1>6
<1>8. \A d \in Contexts : /\ v.ran[d].live <=> w.ran[d].live /\ d # c
                          /\ v.ran[d].ue = w.ran[d].ue
                          /\ v.ran[d].holding => v.ran[d].live
                          /\ d # c => v.ran[d] = w.ran[d]
  BY <1>3, <1>7 DEF Good
<1>9. PointsBack(v)
  BY <1>6, <1>8 DEF Good, PointsBack
<1>10. /\ v.free = Append(w.free, c) /\ v.queue = w.queue
       /\ w.free \in Seq(Contexts)
  BY <1>1, <1>2 DEF Worlds
<1> HIDE DEF v
<1>11. Exact(v)
  <2> DEFINE t == <<c>>
  <2>1. v.free = w.free \o t /\ t \in Seq({c})
    BY <1>10
  <2>2. DOMAIN t = {1} /\ t[1] = c
    OBVIOUS
  <2> HIDE DEF t
  <2>3. \A d \in Contexts : v.ran[d].live <=> w.ran[d].live /\ d \notin {c}
    BY <1>8
  <2>4. \A d \in {c} : w.ran[d].live /\ \E i \in DOMAIN t : t[i] = d
    BY <2>2
  <2>5. \A i, j \in DOMAIN t : t[i] = t[j] => i = j
    BY <2>2
  <2>6. Exact(w) /\ {c} \in SUBSET Contexts
    BY DEF Good
  <2> HIDE DEF R
  <2> QED
    BY <1>10, <2>1, <2>3, <2>4, <2>5, <2>6, ExactGive
<1>12. Leaving(v)
  BY <1>8, <1>10, LeavingFrame DEF Good
<1> QED
  BY <1>5, <1>6, <1>8, <1>9, <1>11, <1>12 DEF Good, v

\* ran_ue_deassociate().
LEMMA DetachGood ==
    ASSUME NEW w, Good(w), NEW c \in Contexts
    PROVE  /\ Good(Detach(w, c))
           /\ Detach(w, c).ue = w.ue
           /\ \A d \in Contexts :
                 /\ Detach(w, c).ran[d].live = w.ran[d].live
                 /\ Detach(w, c).ran[d].ue = IF d = c THEN NULL ELSE w.ran[d].ue
<1> DEFINE v == Detach(w, c)
           R == [w.ran EXCEPT ![c].ue = NULL]
<1>1. w \in Worlds /\ w.ran \in [Contexts -> RanUes]
  BY DEF Good, Worlds
<1>2. v = [w EXCEPT !.ran = R]
  BY DEF Detach
<1>3. R \in [Contexts -> RanUes]
  BY <1>1 DEF RanUes
<1>4. v \in Worlds
  BY <1>1, <1>2, <1>3 DEF Worlds
<1>5. v.ran = R /\ v.ue = w.ue
  BY <1>1, <1>2 DEF Worlds
<1>6. \A d \in Contexts : v.ran[d] = IF d = c THEN [w.ran[c] EXCEPT !.ue = NULL] ELSE w.ran[d]
  BY <1>1, <1>5
<1>7. \A d \in Contexts : /\ v.ran[d].live = w.ran[d].live
                          /\ v.ran[d].ue = IF d = c THEN NULL ELSE w.ran[d].ue
                          /\ v.ran[d].holding = w.ran[d].holding
                          /\ v.ran[d].action = w.ran[d].action
  BY <1>1, <1>6 DEF RanUes
<1>8. PointsBack(v)
  BY <1>5, <1>7 DEF Good, PointsBack
<1>9. v.free = w.free /\ v.queue = w.queue
  BY <1>1, <1>2 DEF Worlds
<1> HIDE DEF v
<1>10. Exact(v) /\ Leaving(v)
  BY <1>7, <1>9, ExactFrame, LeavingFrame DEF Good
<1> QED
  BY <1>4, <1>5, <1>7, <1>8, <1>10 DEF Good, v

\* amf_ue_associate_ran_ue(), when no other context in use names the UE.
LEMMA AssociateGood ==
    ASSUME NEW w, Good(w), NEW u \in Ues, NEW c \in Contexts, w.ue[u].live,
           \A d \in Contexts : w.ran[d].live /\ w.ran[d].ue = u => d = c
    PROVE  /\ Good(Associate(w, u, c))
           /\ Associate(w, u, c).ue[u].live /\ Associate(w, u, c).ue[u].ran = c
<1> DEFINE v == Associate(w, u, c)
           R == [w.ran EXCEPT ![c].ue = u]
           E == [w.ue EXCEPT ![u].ran = c]
<1>1. w \in Worlds /\ w.ran \in [Contexts -> RanUes] /\ w.ue \in [Ues -> AmfUes]
  BY DEF Good, Worlds
<1>2. v = [w EXCEPT !.ue = E, !.ran = R]
  BY DEF Associate
<1>3. R \in [Contexts -> RanUes] /\ E \in [Ues -> AmfUes]
  BY <1>1 DEF RanUes, AmfUes
<1>4. v \in Worlds
  BY <1>1, <1>2, <1>3 DEF Worlds
<1>5. v.ran = R /\ v.ue = E
  BY <1>1, <1>2 DEF Worlds
<1>6. \A d \in Contexts : v.ran[d] = IF d = c THEN [w.ran[c] EXCEPT !.ue = u] ELSE w.ran[d]
  BY <1>1, <1>5
<1>7. \A d \in Contexts : /\ v.ran[d].live = w.ran[d].live
                          /\ v.ran[d].ue = IF d = c THEN u ELSE w.ran[d].ue
                          /\ v.ran[d].holding = w.ran[d].holding
                          /\ v.ran[d].action = w.ran[d].action
  BY <1>1, <1>6 DEF RanUes
<1>8. \A x \in Ues : v.ue[x] = IF x = u THEN [w.ue[u] EXCEPT !.ran = c] ELSE w.ue[x]
  BY <1>1, <1>5
<1>9. \A x \in Ues : /\ v.ue[x].live = w.ue[x].live
                     /\ v.ue[x].ran = IF x = u THEN c ELSE w.ue[x].ran
  BY <1>1, <1>8 DEF AmfUes
<1>10. \A d \in Contexts : w.ran[d].ue \in Ues \cup {NULL}
  BY <1>1 DEF RanUes
<1>11. PointsBack(v)
  BY <1>7, <1>9, <1>10, SMTT(20) DEF Good, PointsBack
<1>12. v.free = w.free /\ v.queue = w.queue
  BY <1>1, <1>2 DEF Worlds
<1> HIDE DEF v
<1>13. Exact(v) /\ Leaving(v)
  BY <1>7, <1>12, ExactFrame, LeavingFrame DEF Good
<1> QED
  BY <1>4, <1>7, <1>9, <1>11, <1>13 DEF Good, v

\* A place of a UE nobody names may change as it likes.
LEMMA UesGood ==
    ASSUME NEW w, Good(w), NEW v \in Worlds, v.ran = w.ran, v.free = w.free,
           v.queue = w.queue,
           \A x \in Ues : Unnamed(w, x) \/ v.ue[x] = w.ue[x]
    PROVE  Good(v)
<1>1. w \in Worlds /\ w.ran \in [Contexts -> RanUes]
  BY DEF Good, Worlds
<1>2. \A d \in Contexts : w.ran[d].ue \in Ues \cup {NULL}
  BY <1>1 DEF RanUes
<1>3. PointsBack(v)
  BY <1>2 DEF Good, PointsBack, Unnamed
<1>4. Exact(v) /\ Leaving(v)
  BY ExactFrame, LeavingFrame DEF Good
<1> QED
  BY <1>3, <1>4 DEF Good

\* What is awaited for the UEs and what the gNBs know do not matter, and the queue
\* may change while it keeps the expiries.
LEMMA FrameGood ==
    ASSUME NEW w, Good(w), NEW v \in Worlds, v.ran = w.ran, v.ue = w.ue, v.free = w.free,
           \A c \in Contexts : w.ran[c].live /\ w.ran[c].action # "none" =>
              (Awaited(w, c, {"holding"}) => Awaited(v, c, {"holding"}))
    PROVE  Good(v)
<1>1. Exact(v) /\ PointsBack(v)
  BY ExactFrame DEF Good, PointsBack
<1>2. Leaving(v)
  BY DEF Good, Leaving
<1> QED
  BY <1>1, <1>2 DEF Good

LEMMA AppendAwaited ==
    ASSUME NEW w, w.queue \in Seq(Events), NEW e \in Events,
           NEW v, v.queue = Append(w.queue, e), NEW c \in Contexts
    PROVE  /\ Awaited(w, c, {"holding"}) => Awaited(v, c, {"holding"})
           /\ e = OfContext("holding", c) => Awaited(v, c, {"holding"})
<1>1. /\ Len(v.queue) = Len(w.queue) + 1 /\ Len(w.queue) \in Nat
      /\ DOMAIN w.queue = 1..Len(w.queue) /\ DOMAIN v.queue = 1..Len(v.queue)
      /\ \A i \in 1..Len(w.queue) : v.queue[i] = w.queue[i]
      /\ v.queue[Len(w.queue) + 1] = e
  OBVIOUS
<1>2. Awaited(w, c, {"holding"}) => Awaited(v, c, {"holding"})
  BY <1>1 DEF Awaited
<1>3. e = OfContext("holding", c) => Awaited(v, c, {"holding"})
  BY <1>1 DEF Awaited, OfContext
<1> QED
  BY <1>2, <1>3

\* The first event is taken off the queue.
LEMMA PopGood ==
    ASSUME NEW w, Good(w), w.queue # <<>>,
           Head(w.queue).type = "holding" =>
              \/ ~w.ran[Head(w.queue).ran].live
              \/ w.ran[Head(w.queue).ran].action = "none"
    PROVE  Good([w EXCEPT !.queue = Tail(w.queue)])
<1> DEFINE v == [w EXCEPT !.queue = Tail(w.queue)]
<1>1. w \in Worlds /\ w.queue \in Seq(Events)
  BY DEF Good, Worlds
<1>2. /\ Len(w.queue) \in Nat \ {0} /\ DOMAIN w.queue = 1..Len(w.queue)
      /\ Tail(w.queue) \in Seq(Events) /\ DOMAIN Tail(w.queue) = 1..(Len(w.queue) - 1)
      /\ \A i \in 1..(Len(w.queue) - 1) : Tail(w.queue)[i] = w.queue[i + 1]
      /\ Head(w.queue) = w.queue[1]
  BY <1>1
<1>3. /\ v \in Worlds /\ v.ran = w.ran /\ v.ue = w.ue /\ v.free = w.free
      /\ v.queue = Tail(w.queue)
  BY <1>1, <1>2 DEF Worlds
<1> HIDE DEF v
<1>4. ASSUME NEW c \in Contexts, w.ran[c].live, w.ran[c].action # "none",
             Awaited(w, c, {"holding"})
      PROVE  Awaited(v, c, {"holding"})
  <2>1. PICK i \in 1..Len(w.queue) : w.queue[i].type = "holding" /\ w.queue[i].ran = c
    BY <1>2, <1>4 DEF Awaited
  <2>2. i # 1
    BY <1>2, <1>4, <2>1
  <2>3. i - 1 \in 1..(Len(w.queue) - 1) /\ Tail(w.queue)[i - 1] = w.queue[i]
    BY <1>2, <2>2
  <2> QED
    BY <1>2, <1>3, <2>1, <2>3 DEF Awaited
<1>5. Good(v)
  BY <1>3, <1>4, FrameGood
<1> QED
  BY <1>5 DEF v

LEMMA PendingGood ==
    ASSUME NEW w, Good(w), NEW u \in Ues, NEW S \in SUBSET UpdateKinds
    PROVE  /\ Good([w EXCEPT !.pending[u] = S])
           /\ [w EXCEPT !.pending[u] = S].ran = w.ran
           /\ [w EXCEPT !.pending[u] = S].ue = w.ue
<1> DEFINE P == [w.pending EXCEPT ![u] = S]
           v == [w EXCEPT !.pending = P]
<1>1. w \in Worlds
  BY DEF Good
<1>2. P \in [Ues -> SUBSET UpdateKinds]
  BY <1>1 DEF Worlds
<1>3. /\ v \in Worlds /\ v.ran = w.ran /\ v.ue = w.ue /\ v.free = w.free
      /\ v.queue = w.queue
  BY <1>1, <1>2 DEF Worlds
<1> HIDE DEF v
<1>4. Good(v)
  BY <1>3, UesGood
<1> QED
  BY <1>3, <1>4 DEF v

LEMMA PushedGood ==
    ASSUME NEW w, Good(w), NEW e \in Events
    PROVE  Good(Pushed(w, e)) /\ Pushed(w, e).ue = w.ue
<1> DEFINE Q == Append(w.queue, e)
           v == [w EXCEPT !.queue = Q]
<1>1. w \in Worlds
  BY DEF Good
<1>2. Q \in Seq(Events)
  BY <1>1 DEF Worlds
<1>3. /\ v \in Worlds /\ v.ran = w.ran /\ v.ue = w.ue /\ v.free = w.free
      /\ v.queue = Append(w.queue, e) /\ w.queue \in Seq(Events)
  BY <1>1, <1>2 DEF Worlds
<1> HIDE DEF v
<1>4. \A c \in Contexts : Awaited(w, c, {"holding"}) => Awaited(v, c, {"holding"})
  BY <1>3, AppendAwaited
<1>5. Good(v)
  BY <1>3, <1>4, FrameGood
<1> QED
  BY <1>3, <1>5 DEF Pushed, v

\* amf_ue_deassociate(), amf_ue_add() and amf_ue_remove().
LEMMA UnlinkGood ==
    ASSUME NEW w, Good(w), NEW u \in Ues, Unnamed(w, u)
    PROVE  Good(Unlink(w, u))
<1> DEFINE E == [w.ue EXCEPT ![u].ran = NULL]
           v == [w EXCEPT !.ue = E]
<1>1. w \in Worlds /\ w.ue \in [Ues -> AmfUes]
  BY DEF Good, Worlds
<1>2. E \in [Ues -> AmfUes]
  BY <1>1 DEF AmfUes
<1>3. /\ v \in Worlds /\ v.ran = w.ran /\ v.ue = E
      /\ v.free = w.free /\ v.queue = w.queue
  BY <1>1, <1>2 DEF Worlds
<1>4. \A x \in Ues : x # u => v.ue[x] = w.ue[x]
  BY <1>1, <1>3
<1> QED
  BY <1>3, <1>4, UesGood DEF Unlink

LEMMA AddUeGood ==
    ASSUME NEW w, Good(w), NEW u \in Ues, Unnamed(w, u)
    PROVE  /\ Good(AddUe(w, u))
           /\ AddUe(w, u).ran = w.ran
           /\ AddUe(w, u).ue[u].live
<1> DEFINE E == [w.ue EXCEPT ![u] = [live |-> TRUE, ran |-> NULL, sub |-> NULL]]
           v == [w EXCEPT !.ue = E]
<1>1. w \in Worlds /\ w.ue \in [Ues -> AmfUes]
  BY DEF Good, Worlds
<1>2. E \in [Ues -> AmfUes]
  BY <1>1 DEF AmfUes
<1>3. /\ v \in Worlds /\ v.ran = w.ran /\ v.ue = E
      /\ v.free = w.free /\ v.queue = w.queue
  BY <1>1, <1>2 DEF Worlds
<1>4. \A x \in Ues : x # u => v.ue[x] = w.ue[x]
  BY <1>1, <1>3
<1>5. v.ue[u].live
  BY <1>1, <1>3
<1> QED
  BY <1>3, <1>4, <1>5, UesGood DEF AddUe

LEMMA RemoveUeGood ==
    ASSUME NEW w, Good(w), NEW u \in Ues, Unnamed(w, u)
    PROVE  /\ Good(RemoveUe(w, u))
           /\ RemoveUe(w, u).ran = w.ran
           /\ \A x \in Ues : x # u => RemoveUe(w, u).ue[x] = w.ue[x]
<1> DEFINE E == [w.ue EXCEPT ![u] = [live |-> FALSE, ran |-> NULL, sub |-> NULL]]
           P == [w.pending EXCEPT ![u] = {}]
           v == [w EXCEPT !.ue = E, !.pending = P]
<1>1. w \in Worlds /\ w.ue \in [Ues -> AmfUes]
  BY DEF Good, Worlds
<1>2. E \in [Ues -> AmfUes]
  BY <1>1 DEF AmfUes
<1>3. P \in [Ues -> SUBSET UpdateKinds]
  BY <1>1 DEF Worlds
<1>4. /\ v \in Worlds /\ v.ran = w.ran /\ v.ue = E
      /\ v.free = w.free /\ v.queue = w.queue
  BY <1>1, <1>2, <1>3 DEF Worlds
<1>5. \A x \in Ues : x # u => v.ue[x] = w.ue[x]
  BY <1>1, <1>4
<1>6. RemoveUe(w, u) = v
  BY DEF RemoveUe
<1>7. Good(v)
  <2> HIDE DEF v
  <2>1. \A x \in Ues : Unnamed(w, x) \/ v.ue[x] = w.ue[x]
    BY <1>5
  <2> QED
    BY <1>4, <2>1, UesGood
<1> QED
  BY <1>4, <1>5, <1>6, <1>7

\* The context of a connected UE is the only one that names it, and a UE that is
\* not connected is named by none.
LEMMA OnlyItsOwn ==
    ASSUME NEW w, Good(w), NEW u \in Ues
    PROVE  /\ Connected(w, u) => w.ue[u].ran \in Contexts /\ w.ran[w.ue[u].ran].live
           /\ \A d \in Contexts : w.ran[d].live /\ w.ran[d].ue = u =>
                 /\ w.ue[u].live /\ Connected(w, u) /\ d = w.ue[u].ran
           /\ ~Connected(w, u) => Unnamed(w, u)
<1>1. w \in Worlds /\ w.ue \in [Ues -> AmfUes]
  BY DEF Good, Worlds
<1>2. w.ue[u].ran \in Contexts \cup {NULL}
  BY <1>1 DEF AmfUes
<1>3. \A d \in Contexts : w.ran[d].live /\ w.ran[d].ue = u => w.ue[u].live /\ w.ue[u].ran = d
  BY NotNull DEF Good, PointsBack
<1> QED
  BY <1>2, <1>3, NotNull DEF Connected, Unnamed

\* ngap_send_amf_ue_context_release_command().
LEMMA ReleaseGood ==
    ASSUME NEW w, Good(w), NEW u \in Ues, NEW a \in Actions
    PROVE  Good(Release(w, u, a))
  BY OnlyItsOwn, CommandGood DEF Release

LEMMA MoveGood ==
    ASSUME NEW w, Good(w), NEW u \in Ues, w.ue[u].live, NEW c \in Contexts
    PROVE  Good(Move(w, u, c)) /\ Move(w, u, c).ue[u].live /\ Move(w, u, c).ue[u].ran = c
<1> DEFINE old  == w.ue[u].ran
           left == Command(Detach(w, old), old, "context")
<1>1. CASE Connected(w, u)
  <2>1. old \in Contexts /\ w.ran[old].live
    BY <1>1, OnlyItsOwn
  <2> HIDE DEF old
  <2>2. /\ Good(Detach(w, old)) /\ Detach(w, old).ue = w.ue
        /\ \A d \in Contexts : /\ Detach(w, old).ran[d].live = w.ran[d].live
                               /\ Detach(w, old).ran[d].ue = IF d = old THEN NULL ELSE w.ran[d].ue
    BY <2>1, DetachGood
  <2>3. "context" \in Actions
    BY DEF Actions
  <2> HIDE DEF left
  <2>4. /\ Good(left) /\ left.ue = w.ue
        /\ \A d \in Contexts : /\ left.ran[d].live = w.ran[d].live
                               /\ left.ran[d].ue = IF d = old THEN NULL ELSE w.ran[d].ue
    BY <2>1, <2>2, <2>3, CommandGood DEF left
  <2>5. \A d \in Contexts : left.ran[d].live => left.ran[d].ue # u
    BY <2>4, OnlyItsOwn, NotNull DEF old
  <2>6. Move(w, u, c) = Associate(left, u, c)
    BY <1>1 DEF Move, left, old
  <2> QED
    BY <2>4, <2>5, <2>6, AssociateGood
<1>2. CASE ~Connected(w, u)
  <2>1. Move(w, u, c) = Associate(w, u, c)
    BY <1>2 DEF Move
  <2>2. \A d \in Contexts : w.ran[d].live => w.ran[d].ue # u
    BY <1>2, OnlyItsOwn DEF Unnamed
  <2> QED
    BY <2>1, <2>2, AssociateGood
<1> QED
  BY <1>1, <1>2

\* The subscriber of a UE does not matter.
LEMMA SubGood ==
    ASSUME NEW w, Good(w), NEW u \in Ues, NEW s \in Subs
    PROVE  Good([w EXCEPT !.ue[u].sub = s])
<1> DEFINE E == [w.ue EXCEPT ![u].sub = s]
           v == [w EXCEPT !.ue = E]
<1>1. w \in Worlds /\ w.ue \in [Ues -> AmfUes] /\ w.ran \in [Contexts -> RanUes]
  BY DEF Good, Worlds
<1>2. E \in [Ues -> AmfUes]
  BY <1>1 DEF AmfUes
<1>3. /\ v \in Worlds /\ v.ran = w.ran /\ v.ue = E
      /\ v.free = w.free /\ v.queue = w.queue
  BY <1>1, <1>2 DEF Worlds
<1>4. \A x \in Ues : v.ue[x] = IF x = u THEN [w.ue[u] EXCEPT !.sub = s] ELSE w.ue[x]
  BY <1>1, <1>3
<1>5. \A x \in Ues : v.ue[x].live = w.ue[x].live /\ v.ue[x].ran = w.ue[x].ran
  BY <1>1, <1>4 DEF AmfUes
<1>6. \A d \in Contexts : w.ran[d].ue \in Ues \cup {NULL}
  BY <1>1 DEF RanUes
<1>7. PointsBack(v)
  BY <1>3, <1>5, <1>6 DEF Good, PointsBack
<1> HIDE DEF v
<1>8. Exact(v) /\ Leaving(v)
  BY <1>3, ExactFrame, LeavingFrame DEF Good
<1> QED
  BY <1>3, <1>7, <1>8 DEF Good, v

\* A context without a UE whose gNB was removed, and that is not being released:
\* nothing is left that would end it.
Idle(w, c) == /\ w.ran[c].live /\ w.ran[c].cut
              /\ w.ran[c].ue = NULL /\ w.ran[c].action = "none"

NoneIdle(w) == \A c \in Contexts : ~Idle(w, c)

\* v has no other idle context than w.
NotMore(v, w) == \A c \in Contexts : Idle(v, c) => Idle(w, c)

LEMMA NotMoreNone == ASSUME NEW w, NoneIdle(w), NEW v, NotMore(v, w) PROVE NoneIdle(v)
  BY DEF NoneIdle, NotMore

LEMMA NotMoreTransitive ==
    ASSUME NEW w, NEW x, NEW v, NotMore(x, w), NotMore(v, x)
    PROVE  NotMore(v, w)
  BY DEF NotMore

\* One place changes.
LEMMA PlaceIdle ==
    ASSUME NEW w \in Worlds, NEW c \in Contexts, NEW r, NEW v,
           v.ran = [w.ran EXCEPT ![c] = r],
           r.live /\ r.cut /\ r.ue = NULL /\ r.action = "none" => Idle(w, c)
    PROVE  NotMore(v, w)
<1>1. w.ran \in [Contexts -> RanUes]
  BY DEF Worlds
<1>2. \A d \in Contexts : v.ran[d] = IF d = c THEN r ELSE w.ran[d]
  BY <1>1
<1> QED
  BY <1>2 DEF NotMore, Idle

LEMMA CommandIdle ==
    ASSUME NEW w, Good(w), NEW c \in Contexts, NEW a \in Actions \ {"none"}
    PROVE  NotMore(Command(w, c, a), w) /\ ~Idle(Command(w, c, a), c)
<1> DEFINE v == Command(w, c, a)
           x == IF w.radio[w.ran[c].gnb][c] = "none" \/ w.ran[c].cut
                THEN w.radio[w.ran[c].gnb][c] ELSE "released"
           r == [w.ran[c] EXCEPT !.action = a, !.holding = TRUE]
           R == [w.ran EXCEPT ![c].action = a, ![c].holding = TRUE]
           Q == [w.radio EXCEPT ![w.ran[c].gnb][c] = x]
<1>1. w \in Worlds /\ w.ran \in [Contexts -> RanUes]
  BY DEF Good, Worlds
<1>2. R = [w.ran EXCEPT ![c] = r] /\ r.action = a
  BY <1>1 DEF RanUes
<1>3. v = [w EXCEPT !.ran = R, !.radio = Q]
  BY DEF Command
<1> HIDE DEF Q, R, r
<1>4. v.ran = [w.ran EXCEPT ![c] = r]
  BY <1>1, <1>2, <1>3 DEF Worlds
<1>5. v.ran[c] = r
  BY <1>1, <1>4
<1> HIDE DEF v
<1>6. NotMore(v, w)
  BY <1>1, <1>2, <1>4, PlaceIdle
<1>7. ~Idle(v, c)
  BY <1>2, <1>5 DEF Idle
<1> QED
  BY <1>6, <1>7 DEF v

\* A context that loses its UE is commanded at once.
LEMMA DetachIdle ==
    ASSUME NEW w, Good(w), NEW c \in Contexts
    PROVE  \A d \in Contexts : d # c /\ Idle(Detach(w, c), d) => Idle(w, d)
<1> DEFINE v == Detach(w, c)
           R == [w.ran EXCEPT ![c].ue = NULL]
<1>1. w \in Worlds /\ w.ran \in [Contexts -> RanUes]
  BY DEF Good, Worlds
<1>2. v = [w EXCEPT !.ran = R]
  BY DEF Detach
<1>3. v.ran = R
  BY <1>1, <1>2 DEF Worlds
<1>4. \A d \in Contexts : d # c => v.ran[d] = w.ran[d]
  BY <1>1, <1>3
<1> HIDE DEF v
<1> QED
  BY <1>3, <1>4 DEF Idle, v

LEMMA DetachedIdle ==
    ASSUME NEW w, Good(w), NEW c \in Contexts, w.ran[c].live
    PROVE  NotMore(Command(Detach(w, c), c, "context"), w)
<1> DEFINE x == Detach(w, c)
           v == Command(x, c, "context")
<1>1. Good(x) /\ "context" \in Actions \ {"none"}
  BY DetachGood DEF Actions
<1>2. \A d \in Contexts : d # c /\ Idle(x, d) => Idle(w, d)
  BY DetachIdle
<1> HIDE DEF x
<1>3. NotMore(v, x) /\ ~Idle(v, c)
  BY <1>1, CommandIdle
<1> QED
  BY <1>2, <1>3 DEF NotMore, x

LEMMA AssociateIdle ==
    ASSUME NEW w, Good(w), NEW u \in Ues, NEW c \in Contexts
    PROVE  NotMore(Associate(w, u, c), w) /\ ~Idle(Associate(w, u, c), c)
<1> DEFINE v == Associate(w, u, c)
           r == [w.ran[c] EXCEPT !.ue = u]
           R == [w.ran EXCEPT ![c].ue = u]
           E == [w.ue EXCEPT ![u].ran = c]
<1>1. w \in Worlds /\ w.ran \in [Contexts -> RanUes]
  BY DEF Good, Worlds
<1>2. R = [w.ran EXCEPT ![c] = r] /\ r.ue = u /\ u # NULL
  BY <1>1, NotNull DEF RanUes
<1>3. v = [w EXCEPT !.ue = E, !.ran = R]
  BY DEF Associate
<1> HIDE DEF E, R, r
<1>4. v.ran = [w.ran EXCEPT ![c] = r]
  BY <1>1, <1>2, <1>3 DEF Worlds
<1>5. v.ran[c] = r
  BY <1>1, <1>4
<1> HIDE DEF v
<1>6. NotMore(v, w)
  BY <1>1, <1>2, <1>4, PlaceIdle
<1>7. ~Idle(v, c)
  BY <1>2, <1>5 DEF Idle
<1> QED
  BY <1>6, <1>7 DEF v

LEMMA RemoveRanIdle ==
    ASSUME NEW w \in Worlds, NEW c \in Contexts
    PROVE  NotMore(RemoveRan(w, c), w)
<1> DEFINE v == RemoveRan(w, c)
           r == Freed(w.ran[c])
           R == [w.ran EXCEPT ![c] = r]
<1>1. w.ran \in [Contexts -> RanUes]
  BY DEF Worlds
<1>2. v = [w EXCEPT !.ran = R, !.free = Append(w.free, c)]
  BY DEF RemoveRan
<1>3. ~r.live
  BY <1>1 DEF RanUes, Freed
<1> HIDE DEF r
<1>4. v.ran = R
  BY <1>1, <1>2 DEF Worlds
<1> HIDE DEF v
<1>5. NotMore(v, w)
  BY <1>3, <1>4, PlaceIdle
<1> QED
  BY <1>5 DEF v

\* What only concerns the UEs.
LEMMA UesIdle ==
    ASSUME NEW w, Good(w), NEW u
    PROVE  /\ NotMore(Unlink(w, u), w)
           /\ NotMore(AddUe(w, u), w)
           /\ NotMore(RemoveUe(w, u), w)
           /\ \A S : NotMore([w EXCEPT !.pending[u] = S], w)
           /\ \A s : NotMore([w EXCEPT !.ue[u].sub = s], w)
<1>1. w \in Worlds
  BY DEF Good
<1>2. \A E, P : /\ [w EXCEPT !.ue = E].ran = w.ran
                /\ [w EXCEPT !.pending = P].ran = w.ran
                /\ [w EXCEPT !.ue = E, !.pending = P].ran = w.ran
  BY <1>1 DEF Worlds
<1>3. \A v : v.ran = w.ran => NotMore(v, w)
  BY DEF NotMore, Idle
<1>4. NotMore(Unlink(w, u), w) /\ NotMore(AddUe(w, u), w)
  BY <1>2, <1>3 DEF Unlink, AddUe
<1>5. NotMore(RemoveUe(w, u), w)
  BY <1>2, <1>3 DEF RemoveUe
<1>6. ASSUME NEW S PROVE NotMore([w EXCEPT !.pending[u] = S], w)
  BY <1>2, <1>3
<1>7. ASSUME NEW s PROVE NotMore([w EXCEPT !.ue[u].sub = s], w)
  BY <1>2, <1>3
<1> QED
  BY <1>4, <1>5, <1>6, <1>7

LEMMA ReleaseIdle ==
    ASSUME NEW w, Good(w), NEW u \in Ues, NEW a \in Actions \ {"none"}
    PROVE  NotMore(Release(w, u, a), w)
<1>1. NotMore(w, w)
  BY DEF NotMore
<1> QED
  BY <1>1, OnlyItsOwn, CommandIdle DEF Release

LEMMA MoveIdle ==
    ASSUME NEW w, Good(w), NEW u \in Ues, NEW c \in Contexts
    PROVE  NotMore(Move(w, u, c), w) /\ ~Idle(Move(w, u, c), c)
<1> DEFINE old  == w.ue[u].ran
           left == Command(Detach(w, old), old, "context")
<1>1. CASE Connected(w, u)
  <2>1. old \in Contexts /\ w.ran[old].live
    BY <1>1, OnlyItsOwn
  <2> HIDE DEF old
  <2>2. Good(Detach(w, old)) /\ Detach(w, old).ran[old].live /\ "context" \in Actions
    BY <2>1, DetachGood DEF Actions
  <2>3. Good(left) /\ NotMore(left, w)
    BY <2>1, <2>2, CommandGood, DetachedIdle
  <2> HIDE DEF left
  <2>4. NotMore(Associate(left, u, c), left) /\ ~Idle(Associate(left, u, c), c)
    BY <2>3, AssociateIdle
  <2>5. Move(w, u, c) = Associate(left, u, c)
    BY <1>1 DEF Move, left, old
  <2> QED
    BY <2>3, <2>4, <2>5 DEF NotMore
<1>2. CASE ~Connected(w, u)
  <2>1. Move(w, u, c) = Associate(w, u, c)
    BY <1>2 DEF Move
  <2> QED
    BY <2>1, AssociateIdle
<1> QED
  BY <1>1, <1>2

\* amf_ue_set_suci() removes the other amf_ue_t of the subscriber with its context.
LEMMA SetSuciGood ==
    ASSUME NEW w, Good(w), NEW u \in Ues, NEW s \in Subs
    PROVE  Good(SetSuci(w, u, s)) /\ NotMore(SetSuci(w, u, s), w)
<1> DEFINE others == {v \in Ues \ {u} : w.ue[v].live /\ w.ue[v].sub = s}
           released(v) == IF Connected(w, v) THEN RemoveRan(w, w.ue[v].ran) ELSE w
           given(v) == [released(v) EXCEPT
                          !.pending[u] = @ \cup (w.pending[v] \cap {"deactivated", "removed"})]
           w1 == IF others = {} THEN w
                 ELSE RemoveUe(given(CHOOSE v \in others : TRUE), CHOOSE v \in others : TRUE)
<1>1. ASSUME NEW v \in Ues PROVE Good(released(v)) /\ Unnamed(released(v), v) /\ NotMore(released(v), w)
  <2>1. CASE Connected(w, v)
    <3> DEFINE r == RemoveRan(w, w.ue[v].ran)
    <3>1. w.ue[v].ran \in Contexts /\ w.ran[w.ue[v].ran].live
      BY <2>1, OnlyItsOwn
    <3>2. /\ Good(r)
          /\ \A d \in Contexts : /\ r.ran[d].live <=> w.ran[d].live /\ d # w.ue[v].ran
                                 /\ r.ran[d].ue = w.ran[d].ue
      BY <3>1, RemoveRanGood
    <3>3. NotMore(r, w)
      BY <3>1, RemoveRanIdle DEF Good
    <3> HIDE DEF r
    <3>4. Unnamed(r, v)
      BY <3>2, OnlyItsOwn DEF Unnamed
    <3> QED
      BY <2>1, <3>2, <3>3, <3>4 DEF r
  <2>2. CASE ~Connected(w, v)
    BY <2>2, OnlyItsOwn DEF NotMore
  <2> QED
    BY <2>1, <2>2
<1>2. ASSUME NEW v \in Ues PROVE Good(given(v)) /\ Unnamed(given(v), v) /\ NotMore(given(v), w)
  <2> DEFINE S == released(v).pending[u] \cup (w.pending[v] \cap {"deactivated", "removed"})
  <2>1. Good(released(v)) /\ Unnamed(released(v), v) /\ NotMore(released(v), w)
    BY <1>1
  <2> HIDE DEF released
  <2>2. w.pending \in [Ues -> SUBSET UpdateKinds]
        /\ released(v).pending \in [Ues -> SUBSET UpdateKinds]
    BY <2>1 DEF Good, Worlds
  <2>3. S \in SUBSET UpdateKinds
    BY <2>2
  <2>4. given(v) = [released(v) EXCEPT !.pending[u] = S]
    OBVIOUS
  <2> HIDE DEF S, given
  <2>5. Good(given(v)) /\ Unnamed(given(v), v)
    BY <2>1, <2>3, <2>4, PendingGood DEF Unnamed
  <2>6. NotMore([released(v) EXCEPT !.pending[u] = S], released(v))
    BY <2>1, UesIdle
  <2> QED
    BY <2>1, <2>4, <2>5, <2>6, NotMoreTransitive
<1>3. Good(w1) /\ NotMore(w1, w)
  <2>1. CASE others = {}
    BY <2>1 DEF NotMore
  <2>2. CASE others # {}
    <3> DEFINE v == CHOOSE x \in others : TRUE
    <3>1. v \in Ues
      BY <2>2
    <3> HIDE DEF v, given
    <3>2. Good(RemoveUe(given(v), v))
      BY <1>2, <3>1, RemoveUeGood
    <3>3. NotMore(RemoveUe(given(v), v), given(v)) /\ NotMore(given(v), w)
      BY <1>2, <3>1, UesIdle
    <3>4. NotMore(RemoveUe(given(v), v), w)
      BY <3>3, NotMoreTransitive
    <3> QED
      BY <2>2, <3>2, <3>4 DEF v
  <2> QED
    BY <2>1, <2>2
<1>4. SetSuci(w, u, s) = [w1 EXCEPT !.ue[u].sub = s]
  BY DEF SetSuci
<1> HIDE DEF w1
<1>5. Good([w1 EXCEPT !.ue[u].sub = s]) /\ NotMore([w1 EXCEPT !.ue[u].sub = s], w1)
  BY <1>3, SubGood, UesIdle
<1> QED
  BY <1>3, <1>4, <1>5, NotMoreTransitive

-----------------------------------------------------------------------------
(* The steps.                                                              *)

\* A finite set of places has a sequence, with each of them once.
LEMMA SetToSeqIsSeq ==
    ASSUME NEW S, IsFiniteSet(S)
    PROVE  /\ SetToSeq(S) \in Seq(S)
           /\ \A i, j \in DOMAIN SetToSeq(S) : SetToSeq(S)[i] = SetToSeq(S)[j] => i = j
           /\ \A c \in S : \E i \in DOMAIN SetToSeq(S) : SetToSeq(S)[i] = c
<1>1. Cardinality(S) \in Nat /\ Bijection(1..Cardinality(S), S) # {}
  BY FS_CardinalityType DEF ExistsBijection
<1>2. \E f \in [1..Cardinality(S) -> S] : IsInjective(f)
  BY <1>1 DEF Bijection, Injection
<1>3. SetToSeq(S) \in [1..Cardinality(S) -> S] /\ IsInjective(SetToSeq(S))
  BY <1>2 DEF SetToSeq
<1>4. IsFiniteSet(1..Cardinality(S)) /\ Cardinality(1..Cardinality(S)) = Cardinality(S)
  <2>1. 1..Cardinality(S) = {} \/ 1 <= Cardinality(S)
    BY <1>1
  <2> QED
    BY <1>1, <2>1, FS_Interval, FS_EmptySet
<1>5. SetToSeq(S) \in Injection(1..Cardinality(S), S)
  BY <1>3 DEF Injection
<1>6. SetToSeq(S) \in Surjection(1..Cardinality(S), S)
  BY <1>4, <1>5, FS_Injection
<1> QED
  BY <1>1, <1>3, <1>6 DEF IsInjective, Surjection

LEMMA BecomesGood ==
    ASSUME NEW w, Good(w), Becomes(w)
    PROVE  IInv'
<1>1. w \in Worlds
  BY DEF Good
<1>2. Now' = w
  BY <1>1 DEF Becomes, Now, Worlds
<1>3. Good(Now')
  BY <1>2
<1> QED
  BY <1>3 DEF IInv

LEMMA StartedGood == Good(Started)
<1>1. SetToSeq(Contexts) \in Seq(Contexts)
  BY SetToSeqIsSeq, NgAssumption
<1>2. Started \in Worlds
  BY <1>1 DEF Started, Worlds, RanUes, AmfUes, Phases, Actions
<1>3. \A c \in Contexts : ~Started.ran[c].live /\ ~Started.ran[c].holding
  BY DEF Started
<1>4. Exact(Started)
  <2>1. /\ \A i, j \in DOMAIN Started.free : Started.free[i] = Started.free[j] => i = j
        /\ \A c \in Contexts : \E i \in DOMAIN Started.free : Started.free[i] = c
    BY SetToSeqIsSeq, NgAssumption DEF Started
  <2> QED
    BY <1>3, <2>1 DEF Exact
<1> QED
  BY <1>2, <1>3, <1>4 DEF Good, PointsBack, Leaving

LEMMA NowGood ==
    ASSUME IInv
    PROVE  /\ Good(Now) /\ queue \in Seq(Events)
           /\ queue # <<>> => Head(queue) \in Events
<1>1. Good(Now) /\ Now \in Worlds
  BY DEF IInv, Good
<1>2. queue \in Seq(Events)
  BY <1>1 DEF Now, Worlds
<1> QED
  BY <1>1, <1>2

\* What a handler starts from: its event is taken off the queue.
LEMMA PoppedGood ==
    ASSUME IInv, queue # <<>>,
           Head(queue).type = "holding" =>
              ~ran[Head(queue).ran].live \/ ran[Head(queue).ran].action = "none"
    PROVE  /\ Good(Popped) /\ Popped.ran = ran /\ Popped.ue = ue
           /\ Popped.free = free /\ Popped.pending = pending
           /\ Head(queue) \in Events
<1>1. Now.queue = queue /\ Now.ran = ran
  BY DEF Now
<1>2. Popped = [Now EXCEPT !.queue = Tail(Now.queue)]
  BY DEF Popped
<1>3. Good(Popped)
  BY <1>1, <1>2, NowGood, PopGood
<1> QED
  BY <1>3, NowGood DEF Popped, Now

\* A gNB sends: the pools are untouched.
LEMMA SendsGood ==
    ASSUME IInv, NEW e \in Events, Sends(e), radio' \in [Gnbs -> [Contexts -> Phases]]
    PROVE  IInv'
<1>1. queue \in Seq(Events) /\ Good(Now) /\ Now \in Worlds
  BY NowGood DEF Good
<1>2. queue' = Append(queue, e) /\ UNCHANGED <<ran, free, ue, pending>>
  BY DEF Sends, Pushes
<1>3. queue' \in Seq(Events)
  BY <1>1, <1>2
<1>4. /\ Now' \in Worlds /\ Now'.ran = Now.ran /\ Now'.ue = Now.ue /\ Now'.free = Now.free
      /\ Now'.queue = Append(Now.queue, e) /\ Now.queue \in Seq(Events)
  BY <1>1, <1>2, <1>3 DEF Now, Worlds
<1>5. \A w, v : Good(w) /\ v \in Worlds /\ v.ran = w.ran /\ v.ue = w.ue /\ v.free = w.free
                /\ v.queue = Append(w.queue, e) /\ w.queue \in Seq(Events) => Good(v)
  BY AppendAwaited, FrameGood
<1>6. Good(Now')
  BY <1>1, <1>4, <1>5
<1> QED
  BY <1>6 DEF IInv

LEMMA AbortGood ==
    ASSUME NEW a, Abort(a)
    PROVE  IInv'
  BY StartedGood, BecomesGood DEF Abort

LEMMA CommitsGood ==
    ASSUME NEW w, Good(w), Commits(w)
    PROVE  IInv'
  BY BecomesGood DEF Commits

LEMMA UpdatesGood ==
    ASSUME NEW w, Good(w), NEW u \in Ues, NEW update \in UpdateKinds, Updates(w, u, update)
    PROVE  IInv'
<1> DEFINE S == w.pending[u] \cup {update}
           w1 == [w EXCEPT !.pending[u] = S]
<1>1. w.pending \in [Ues -> SUBSET UpdateKinds]
  BY DEF Good, Worlds
<1>2. S \in SUBSET UpdateKinds
  BY <1>1
<1>3. Commits(w1)
  BY DEF Updates
<1> HIDE DEF S
<1>4. Good(w1)
  BY <1>2, PendingGood
<1> QED
  BY <1>3, <1>4, CommitsGood

\* A command on the context the UE has now, which is sent or fails.
LEMMA AssertedGood ==
    ASSUME NEW w, NEW u, NEW v, Good(v), NEW a, Asserted(w, u, v, a)
    PROVE  IInv'
  BY CommitsGood, AbortGood DEF Asserted

LEMMA ExceptsGood ==
    ASSUME NEW w, Good(w), NEW u \in Ues, Excepts(w, u)
    PROVE  IInv'
<1>1. "released" \in UpdateKinds /\ "ue" \in Actions
  BY DEF UpdateKinds, Actions
<1> QED
  BY <1>1, UpdatesGood, ReleaseGood, AssertedGood DEF Excepts

LEMMA GmmMessageGood ==
    ASSUME NEW w, Good(w), NEW u \in Ues, Connected(w, u), GmmMessage(w, u)
    PROVE  IInv'
<1> DEFINE c == w.ue[u].ran
<1>1. {"registered", "deregistered"} \subseteq UpdateKinds /\ {"unlink", "context"} \subseteq Actions
  BY DEF UpdateKinds, Actions
<1>2. c \in Contexts /\ w.ran[c].live
  BY OnlyItsOwn
<1>3. CASE Commits(w)
  BY <1>3, CommitsGood
<1>4. CASE Updates(w, u, "registered") \/ Updates(w, u, "deregistered")
  BY <1>1, <1>4, UpdatesGood
<1>5. ASSUME NEW s \in Subs, Commits(SetSuci(w, u, s)) PROVE IInv'
  BY <1>5, SetSuciGood, CommitsGood
<1>6. CASE Excepts(w, u)
  BY <1>6, ExceptsGood
<1>7. CASE Asserted(w, u, Release(w, u, "unlink"), "deregistration accept")
  BY <1>1, <1>7, ReleaseGood, AssertedGood
<1>8. CASE Asserted(w, u, Command(Detach(w, c), c, "context"), "release command")
  <2> HIDE DEF c
  <2>1. Good(Detach(w, c)) /\ Detach(w, c).ran[c].live
    BY <1>2, DetachGood
  <2>2. Good(Command(Detach(w, c), c, "context"))
    BY <1>1, <1>2, <2>1, CommandGood
  <2> QED
    BY <1>8, <2>2, AssertedGood
<1> QED
  BY <1>3, <1>4, <1>5, <1>6, <1>7, <1>8 DEF GmmMessage

LEMMA DispatchGood ==
    ASSUME NEW w, Good(w), NEW u \in Ues, Dispatch(w, u)
    PROVE  IInv'
  BY CommitsGood, AbortGood, GmmMessageGood DEF Dispatch

\* A context is used again, and a NAS message is queued or refused.
LEMMA ReuseRanGood ==
    ASSUME NEW w, Good(w), NEW c \in Contexts, NEW g \in Gnbs
    PROVE  Good(ReuseRan(w, c, g)) /\ NotMore(ReuseRan(w, c, g), w)
<1> DEFINE x == IF w.radio[g][c] = "none" THEN "known" ELSE w.radio[g][c]
           Q == [w.radio EXCEPT ![g][c] = x]
           v == [w EXCEPT !.radio = Q]
<1>1. w \in Worlds /\ w.radio \in [Gnbs -> [Contexts -> Phases]]
  BY DEF Good, Worlds
<1>2. x \in Phases
  BY <1>1 DEF Phases
<1>3. Q \in [Gnbs -> [Contexts -> Phases]]
  BY <1>1, <1>2
<1>4. v = ReuseRan(w, c, g)
  BY <1>1 DEF ReuseRan
<1> HIDE DEF Q, x
<1>5. /\ v \in Worlds /\ v.ran = w.ran /\ v.ue = w.ue /\ v.free = w.free
      /\ v.queue = w.queue
  BY <1>1, <1>3 DEF Worlds
<1> HIDE DEF v
<1>6. Good(v)
  BY <1>5, FrameGood DEF Awaited
<1>7. NotMore(v, w)
  BY <1>5 DEF NotMore, Idle
<1> QED
  BY <1>4, <1>6, <1>7

LEMMA ToNasGood ==
    ASSUME NEW w, Good(w), NEW c \in Contexts, NEW s \in Subs \cup {NULL},
           NEW v \in ToNas(w, c, s)
    PROVE  Good(v) /\ v.ue = w.ue /\ NotMore(v, w)
<1>1. CASE v = w
  BY <1>1 DEF NotMore
<1>2. CASE v = Pushed(w, Gmm(c, s))
  <2>1. Gmm(c, s) \in Events
    BY DEF Gmm, Events
  <2>2. Good(v) /\ v.ue = w.ue
    BY <1>2, <2>1, PushedGood
  <2>3. v.ran = w.ran
    BY <1>2 DEF Pushed, Good, Worlds
  <2> QED
    BY <2>2, <2>3 DEF NotMore, Idle
<1> QED
  BY <1>1, <1>2 DEF ToNas

\* Where ngap_handle_initial_ue_message() comes to: a context of the gNB is used again,
\* no place is left, or v is what the new context c makes of the message.
LEMMA InitialUeMessageCases ==
    ASSUME IInv, InitialUeMessage
    PROVE  LET e == Head(queue)
               c == Head(free)
               w == AddRan(Popped, c, e.gnb)
           IN \/ \E d \in Contexts : \E v \in ToNas(ReuseRan(Popped, d, e.gnb), d, e.sub) :
                    Commits(v)
              \/ Commits(Popped)
              \/ /\ free # <<>> /\ c \in Contexts
                 /\ \E v \in ToNas(w, c, e.sub) :
                       \/ Commits(v)
                       \/ \E u \in Known(e.sub) : Asserted(v, u, Move(v, u, c), "release command")
<1>1. free \in Seq(Contexts)
  BY DEF IInv, Good, Now, Worlds
<1>2. free # <<>> => Head(free) \in Contexts
  BY <1>1
<1> QED
  BY <1>2, Zenon DEF InitialUeMessage

LEMMA InitialUeMessageGood == ASSUME IInv, InitialUeMessage PROVE IInv'
<1> DEFINE e == Head(queue)
           c == Head(free)
           w == AddRan(Popped, c, e.gnb)
<1>1. queue # <<>> /\ e.type = "initial"
  BY DEF InitialUeMessage, Takes
<1>2. /\ Good(Popped) /\ Popped.ran = ran /\ Popped.ue = ue
      /\ Popped.free = free /\ e \in Events
  BY <1>1, PoppedGood
<1>3. e.gnb \in Gnbs /\ e.sub \in Subs \cup {NULL}
  BY <1>1, <1>2 DEF Events
<1> HIDE DEF e, c
<1>4. CASE Commits(Popped)
  BY <1>2, <1>4, CommitsGood
<1>5. ASSUME NEW d \in Contexts, NEW v \in ToNas(ReuseRan(Popped, d, e.gnb), d, e.sub), Commits(v)
      PROVE  IInv'
  BY <1>2, <1>3, <1>5, ReuseRanGood, ToNasGood, CommitsGood
<1>6. ASSUME free # <<>>, c \in Contexts, NEW v \in ToNas(w, c, e.sub),
             Commits(v) \/ \E u \in Known(e.sub) : Asserted(v, u, Move(v, u, c), "release command")
      PROVE  IInv'
  <2>1. Good(w) /\ w.ue = ue
    BY <1>2, <1>3, <1>6, AddRanGood DEF c
  <2> HIDE DEF w
  <2>2. Good(v) /\ v.ue = ue
    BY <1>3, <1>6, <2>1, ToNasGood
  <2>3. ASSUME NEW u \in Known(e.sub) PROVE Good(Move(v, u, c))
    <3>1. u \in Ues /\ v.ue[u].live
      BY <2>2 DEF Known
    <3> QED
      BY <1>6, <2>2, <3>1, MoveGood
  <2> QED
    BY <1>6, <2>2, <2>3, CommitsGood, AssertedGood
<1> QED
  BY <1>4, <1>5, <1>6, InitialUeMessageCases DEF e, c

LEMMA UplinkNasTransportGood == ASSUME IInv, UplinkNasTransport PROVE IInv'
<1> DEFINE c == Head(queue).ran
<1>1. queue # <<>> /\ Head(queue).type = "uplink"
  BY DEF UplinkNasTransport, Takes
<1>2. /\ Good(Popped) /\ Popped.ran = ran /\ Popped.ue = ue /\ Head(queue) \in Events
  BY <1>1, PoppedGood
<1>3. c \in Contexts
  BY <1>1, <1>2 DEF Events
<1>4. CASE Commits(Popped)
  BY <1>2, <1>4, CommitsGood
<1>5. ASSUME ran[c].live, ran[c].ue # NULL, NEW s \in {ue[ran[c].ue].sub, NULL},
             NEW w \in ToNas(Popped, c, s), Commits(w)
      PROVE  IInv'
  <2>1. ran \in [Contexts -> RanUes] /\ ue \in [Ues -> AmfUes]
    BY <1>2 DEF Good, Worlds
  <2>2. s \in Subs \cup {NULL}
    BY <1>3, <1>5, <2>1 DEF RanUes, AmfUes
  <2> QED
    BY <1>2, <1>3, <1>5, <2>2, ToNasGood, CommitsGood
<1> QED
  BY <1>4, <1>5 DEF UplinkNasTransport

LEMMA FivegmmMessageGood == ASSUME IInv, FivegmmMessage PROVE IInv'
<1> DEFINE e == Head(queue)
           c == e.ran
<1>1. queue # <<>> /\ e.type = "5gmm"
  BY DEF FivegmmMessage, Takes
<1>2. Good(Popped) /\ Popped.ran = ran /\ Popped.ue = ue /\ e \in Events
  BY <1>1, PoppedGood
<1>3. c \in Contexts
  BY <1>1, <1>2 DEF Events
<1>4. ran[c].ue \in Ues \cup {NULL}
  BY <1>2, <1>3 DEF Good, Worlds, RanUes
<1> HIDE DEF c
<1>5. ASSUME ran[c].ue # NULL, Dispatch(Popped, ran[c].ue) PROVE IInv'
  BY <1>2, <1>4, <1>5, DispatchGood
<1>6. ASSUME NEW u \in Known(e.sub), Dispatch(Move(Popped, u, c), u) PROVE IInv'
  <2>1. u \in Ues /\ Popped.ue[u].live
    BY <1>2 DEF Known
  <2> QED
    BY <1>2, <1>3, <1>6, <2>1, MoveGood, DispatchGood
<1>7. ASSUME NEW u \in Ues, ~ue[u].live, Dispatch(Associate(AddUe(Popped, u), u, c), u)
      PROVE  IInv'
  <2>1. Unnamed(Popped, u)
    BY <1>2, <1>7, OnlyItsOwn DEF Unnamed
  <2>2. /\ Good(AddUe(Popped, u)) /\ AddUe(Popped, u).ran = Popped.ran
        /\ AddUe(Popped, u).ue[u].live
    BY <1>2, <2>1, AddUeGood
  <2>3. \A d \in Contexts : AddUe(Popped, u).ran[d].live => AddUe(Popped, u).ran[d].ue # u
    BY <2>1, <2>2 DEF Unnamed
  <2>4. Good(Associate(AddUe(Popped, u), u, c))
    BY <1>3, <2>2, <2>3, AssociateGood
  <2> QED
    BY <1>7, <2>4, DispatchGood
<1>8. ASSUME ran[c].live, Commits(Command(Popped, c, "context")) PROVE IInv'
  <2>1. "context" \in Actions
    BY DEF Actions
  <2> QED
    BY <1>2, <1>3, <1>8, <2>1, CommandGood, CommitsGood
<1>9. CASE Abort("timer of a freed context")
  BY <1>9, AbortGood
<1>10. CASE Commits(Popped)
  BY <1>2, <1>10, CommitsGood
<1> QED
  BY <1>5, <1>6, <1>7, <1>8, <1>9, <1>10 DEF FivegmmMessage, c

LEMMA ReleaseActionGood ==
    ASSUME IInv, queue # <<>>, NEW c \in Contexts, c = Head(queue).ran
    PROVE  Good(ReleaseAction(c)) /\ NotMore(ReleaseAction(c), Popped)
<1> DEFINE u == ran[c].ue
           w == RemoveRan(Popped, c)
<1>1. CASE ~ran[c].live \/ ran[c].action = "none"
  <2>1. Good(Popped)
    BY <1>1, PoppedGood
  <2> QED
    BY <1>1, <2>1 DEF ReleaseAction, NotMore
<1>2. CASE ran[c].live /\ ran[c].action # "none"
  <2> DEFINE r == RemoveRan(Now, c)
  <2>1. Good(Now) /\ Now \in Worlds /\ Now.ran = ran /\ Now.ue = ue /\ Now.queue = queue
    BY NowGood DEF Now, Good
  <2>2. /\ Good(r) /\ r.ue = ue
        /\ \A d \in Contexts : /\ r.ran[d].live <=> ran[d].live /\ d # c
                               /\ r.ran[d].ue = ran[d].ue
    BY <1>2, <2>1, RemoveRanGood
  <2>3. r.queue = queue /\ w = [r EXCEPT !.queue = Tail(r.queue)] /\ w.ran = r.ran
    BY DEF RemoveRan, Popped, Now
  <2>4. u \in Ues \cup {NULL}
    BY <2>1 DEF Worlds, RanUes
  <2>5. NotMore(w, Popped)
    <3>1. Tail(queue) \in Seq(Events)
      BY NowGood
    <3>2. Popped \in Worlds
      BY <2>1, <3>1 DEF Popped, Worlds
    <3> QED
      BY <3>2, RemoveRanIdle
  <2> HIDE DEF w, u, r
  <2>6. Good(w)
    BY <2>2, <2>3, PopGood
  <2>7. ASSUME u # NULL PROVE u \in Ues /\ Unnamed(w, u)
    BY <1>2, <2>1, <2>2, <2>3, <2>4, <2>7, OnlyItsOwn DEF Unnamed, u
  <2>8. ASSUME u # NULL PROVE Good(Unlink(w, u)) /\ Good(RemoveUe(w, u))
    BY <2>6, <2>7, <2>8, UnlinkGood, RemoveUeGood
  <2>9. NotMore(Unlink(w, u), Popped) /\ NotMore(RemoveUe(w, u), Popped)
    BY <2>5, <2>6, UesIdle, NotMoreTransitive
  <2> QED
    BY <1>2, <2>5, <2>6, <2>8, <2>9 DEF ReleaseAction, w, u
<1> QED
  BY <1>1, <1>2

LEMMA ReleaseCompleteGood == ASSUME IInv, ReleaseComplete PROVE IInv'
<1>1. queue # <<>> /\ Head(queue).type \in {"complete", "holding"}
  BY DEF ReleaseComplete, Takes
<1>2. Head(queue) \in Events
  BY <1>1, NowGood
<1>3. Head(queue).ran \in Contexts
  BY <1>1, <1>2 DEF Events
<1> QED
  BY <1>1, <1>3, ReleaseActionGood, CommitsGood DEF ReleaseComplete

LEMMA SetupFailureGood == ASSUME IInv, SetupFailure PROVE IInv'
<1> DEFINE c == Head(queue).ran
<1>1. queue # <<>> /\ Head(queue).type = "setup failure"
  BY DEF SetupFailure, Takes
<1>2. Good(Popped) /\ Popped.ran = ran /\ Popped.ue = ue /\ Head(queue) \in Events
  BY <1>1, PoppedGood
<1>3. c \in Contexts
  BY <1>1, <1>2 DEF Events
<1>4. ran[c].ue \in Ues \cup {NULL} /\ "deactivated" \in UpdateKinds /\ "context" \in Actions
  BY <1>2, <1>3 DEF Good, Worlds, RanUes, UpdateKinds, Actions
<1> HIDE DEF c
<1>5. CASE Commits(Popped)
  BY <1>2, <1>5, CommitsGood
<1>6. ASSUME ran[c].ue # NULL, Updates(Popped, ran[c].ue, "deactivated") PROVE IInv'
  BY <1>2, <1>4, <1>6, UpdatesGood
<1>7. ASSUME ran[c].live, Commits(Command(Popped, c, "context")) PROVE IInv'
  BY <1>2, <1>3, <1>4, <1>7, CommandGood, CommitsGood
<1> QED
  BY <1>5, <1>6, <1>7, AbortGood DEF SetupFailure, c

LEMMA ReleaseRequestGood == ASSUME IInv, ReleaseRequest PROVE IInv'
<1> DEFINE c == Head(queue).ran
           u == ran[c].ue
<1>1. queue # <<>> /\ Head(queue).type = "release request"
  BY DEF ReleaseRequest, Takes
<1>2. Good(Popped) /\ Popped.ran = ran /\ Popped.ue = ue /\ Head(queue) \in Events
  BY <1>1, PoppedGood
<1>3. c \in Contexts
  BY <1>1, <1>2 DEF Events
<1>4. /\ u \in Ues \cup {NULL} /\ "deactivated" \in UpdateKinds
      /\ "context" \in Actions /\ "unlink" \in Actions
  BY <1>2, <1>3 DEF Good, Worlds, RanUes, UpdateKinds, Actions
<1> HIDE DEF c, u
<1>5. CASE Commits(Popped)
  BY <1>2, <1>5, CommitsGood
<1>6. ASSUME ran[c].live, Commits(Command(Popped, c, "context")) PROVE IInv'
  BY <1>2, <1>3, <1>4, <1>6, CommandGood, CommitsGood
<1>7. ASSUME u # NULL, Updates(Popped, u, "deactivated") PROVE IInv'
  BY <1>2, <1>4, <1>7, UpdatesGood
<1>8. ASSUME u # NULL, Asserted(Popped, u, Release(Popped, u, "unlink"), "release command")
      PROVE  IInv'
  BY <1>2, <1>4, <1>8, ReleaseGood, AssertedGood
<1> QED
  BY <1>5, <1>6, <1>7, <1>8, AbortGood DEF ReleaseRequest, c, u

LEMMA PartialResetGood == ASSUME IInv, PartialReset PROVE IInv'
<1> DEFINE c == Head(queue).ran
<1>1. queue # <<>> /\ Head(queue).type = "partial reset"
  BY DEF PartialReset, Takes
<1>2. Good(Popped) /\ Popped.ran = ran /\ Popped.ue = ue /\ Head(queue) \in Events
  BY <1>1, PoppedGood
<1>3. c \in Contexts
  BY <1>1, <1>2 DEF Events
<1>4. ran[c].ue \in Ues \cup {NULL} /\ "removed" \in UpdateKinds
  BY <1>2, <1>3 DEF Good, Worlds, RanUes, UpdateKinds
<1> HIDE DEF c
<1>5. CASE Commits(Popped)
  BY <1>2, <1>5, CommitsGood
<1>6. ASSUME ran[c].ue # NULL, Updates(Popped, ran[c].ue, "removed") PROVE IInv'
  BY <1>2, <1>4, <1>6, UpdatesGood
<1>7. ASSUME ran[c].live, Commits(RemoveRan(Popped, c)) PROVE IInv'
  BY <1>2, <1>3, <1>7, RemoveRanGood, CommitsGood
<1> QED
  BY <1>5, <1>6, <1>7, AbortGood DEF PartialReset, c

\* amf_sbi_send_deactivate_all_ue_in_gnb(): a UE whose pointer is reset is named by
\* no context that stays.
LEMMA DeactivateAllGood ==
    ASSUME IInv, queue # <<>>, Head(queue).type # "holding", NEW g \in Gnbs, NEW sessions \in SUBSET Ues
    PROVE  Good(DeactivateAll(g, sessions))
<1> DEFINE mine    == {c \in Contexts : ran[c].live /\ ran[c].gnb = g /\ ~ran[c].cut}
           waiting == {c \in mine : ran[c].ue \in sessions}
           gone    == mine \ waiting
           owners  == {ran[c].ue : c \in gone}
           R == [c \in Contexts |-> IF c \in gone THEN Freed(ran[c]) ELSE ran[c]]
           E == [u \in Ues |-> IF u \in owners THEN [ue[u] EXCEPT !.ran = NULL] ELSE ue[u]]
           P == [u \in Ues |-> IF \E c \in waiting : ran[c].ue = u
                               THEN pending[u] \cup {"removed"} ELSE pending[u]]
           F == free \o SetToSeq(gone)
           v == [Popped EXCEPT !.ran = R, !.free = F, !.ue = E, !.pending = P]
<1>1. /\ Good(Popped) /\ Popped.ran = ran /\ Popped.ue = ue
      /\ Popped.free = free /\ Popped.pending = pending
  BY PoppedGood
<1>2. Popped \in Worlds
  BY <1>1 DEF Good
<1>3. /\ ran \in [Contexts -> RanUes] /\ ue \in [Ues -> AmfUes]
      /\ pending \in [Ues -> SUBSET UpdateKinds] /\ free \in Seq(Contexts)
  BY <1>1, <1>2 DEF Worlds
<1>4. v = DeactivateAll(g, sessions)
  BY <1>1 DEF DeactivateAll
<1>5. \A c \in Contexts : /\ Freed(ran[c]) \in RanUes /\ ~Freed(ran[c]).live
                          /\ ~Freed(ran[c]).holding
  BY <1>3, ZenonT(60) DEF RanUes, Actions, Freed
<1>6. R \in [Contexts -> RanUes]
  BY <1>3, <1>5
<1>7. E \in [Ues -> AmfUes]
  BY <1>3 DEF AmfUes
<1>8. P \in [Ues -> SUBSET UpdateKinds]
  BY <1>3 DEF UpdateKinds
<1>9. /\ F \in Seq(Contexts) /\ gone \in SUBSET Contexts /\ SetToSeq(gone) \in Seq(gone)
      /\ \A i, j \in DOMAIN SetToSeq(gone) : SetToSeq(gone)[i] = SetToSeq(gone)[j] => i = j
      /\ \A c \in gone : \E i \in DOMAIN SetToSeq(gone) : SetToSeq(gone)[i] = c
  <2>1. gone \subseteq Contexts
    OBVIOUS
  <2>2. IsFiniteSet(gone)
    BY <2>1, FS_Subset, NgAssumption
  <2> HIDE DEF gone
  <2>3. /\ SetToSeq(gone) \in Seq(gone)
        /\ \A i, j \in DOMAIN SetToSeq(gone) : SetToSeq(gone)[i] = SetToSeq(gone)[j] => i = j
        /\ \A c \in gone : \E i \in DOMAIN SetToSeq(gone) : SetToSeq(gone)[i] = c
    BY <2>2, SetToSeqIsSeq
  <2>4. SetToSeq(gone) \in Seq(Contexts)
    BY <2>1, <2>3
  <2> QED
    BY <1>3, <2>1, <2>3, <2>4
<1> HIDE DEF F, P
<1>10. v \in Worlds /\ v.ran = R /\ v.ue = E /\ v.free = F /\ v.queue = Popped.queue
  BY <1>2, <1>6, <1>7, <1>8, <1>9 DEF Worlds
<1>11. \A c \in Contexts : v.ran[c].holding => v.ran[c].live
  BY <1>1, <1>5, <1>10 DEF Good
<1>12. PointsBack(v)
  <2> SUFFICES ASSUME NEW c \in Contexts, R[c].live, R[c].ue # NULL
               PROVE  E[R[c].ue].live /\ E[R[c].ue].ran = c
    BY <1>10, ZenonT(60) DEF PointsBack
  <2> DEFINE u == ran[c].ue
  <2>1. c \notin gone /\ R[c] = ran[c]
    BY <1>5
  <2>2. u \in Ues
    BY <1>3, <2>1 DEF RanUes
  <2>3. ue[u].live /\ ue[u].ran = c
    BY <1>1, <2>1 DEF Good, PointsBack
  <2>4. u \notin owners
    <3> SUFFICES ASSUME NEW d \in gone, ran[d].ue = u PROVE FALSE
      OBVIOUS
    <3>1. ue[u].ran = d
      BY <1>1, <2>2, NotNull DEF Good, PointsBack
    <3> QED
      BY <2>1, <2>3, <3>1
  <2>5. E[u] = ue[u]
    BY <2>2, <2>4
  <2> QED
    BY <2>1, <2>3, <2>5
<1> HIDE DEF v
<1>13. \A c \in Contexts : /\ R[c].live <=> ran[c].live /\ c \notin gone
                           /\ c \notin gone => R[c] = ran[c]
  BY <1>5
<1>14. \A c \in gone : ran[c].live
  OBVIOUS
<1> HIDE DEF gone, R, mine, waiting
<1>15. Exact(v)
  <2> DEFINE t == SetToSeq(gone)
             p == Popped
  <2>1. v.free = p.free \o t /\ p.free \in Seq(Contexts) /\ Exact(p)
    BY <1>1, <1>3, <1>10 DEF F, Good
  <2>2. \A d \in Contexts : v.ran[d].live <=> p.ran[d].live /\ d \notin gone
    BY <1>1, <1>10, <1>13
  <2>3. /\ gone \in SUBSET Contexts /\ t \in Seq(gone)
        /\ \A i, j \in DOMAIN t : t[i] = t[j] => i = j
    BY <1>9
  <2>4. \A c \in gone : p.ran[c].live /\ \E i \in DOMAIN t : t[i] = c
    BY <1>1, <1>9, <1>14
  <2> HIDE DEF t, p
  <2> QED
    BY <2>1, <2>2, <2>3, <2>4, ExactGive
<1>16. Leaving(v)
  BY <1>1, <1>10, <1>13, LeavingFrame DEF Good
<1> QED
  BY <1>4, <1>10, <1>11, <1>12, <1>15, <1>16 DEF Good

LEMMA NgResetGood == ASSUME IInv, NgReset PROVE IInv'
<1>1. queue # <<>> /\ Head(queue).type = "reset"
  BY DEF NgReset, Takes
<1>2. Head(queue) \in Events
  BY <1>1, PoppedGood
<1>3. Head(queue).gnb \in Gnbs
  BY <1>1, <1>2 DEF Events
<1> QED
  BY <1>1, <1>3, DeactivateAllGood, CommitsGood DEF NgReset

\* The contexts that wait lose their gNB, not their UE.
LEMMA ConnectionRefusedGood == ASSUME IInv, ConnectionRefused PROVE IInv'
<1>1. queue # <<>> /\ Head(queue).type = "refused"
  BY DEF ConnectionRefused, Takes
<1>2. Head(queue) \in Events
  BY <1>1, PoppedGood
<1> DEFINE g == Head(queue).gnb
<1>3. g \in Gnbs
  BY <1>1, <1>2 DEF Events
<1> HIDE DEF g
<1>4. SUFFICES ASSUME NEW w, Good(w),
                      Commits([w EXCEPT !.ran = [c \in Contexts |->
                        [w.ran[c] EXCEPT !.cut = @ \/ (w.ran[c].live /\ w.ran[c].gnb = g)]]])
               PROVE  IInv'
  BY <1>1, <1>3, DeactivateAllGood DEF ConnectionRefused, g
<1> DEFINE R == [c \in Contexts |->
                  [w.ran[c] EXCEPT !.cut = @ \/ (w.ran[c].live /\ w.ran[c].gnb = g)]]
           v == [w EXCEPT !.ran = R]
<1>5. w \in Worlds /\ w.ran \in [Contexts -> RanUes]
  BY <1>4 DEF Good, Worlds
<1>6. \A c \in Contexts : /\ R[c] \in RanUes
                          /\ R[c].live = w.ran[c].live /\ R[c].ue = w.ran[c].ue
                          /\ R[c].holding = w.ran[c].holding
                          /\ R[c].action = w.ran[c].action
  BY <1>5 DEF RanUes
<1>7. R \in [Contexts -> RanUes]
  BY <1>6
<1> HIDE DEF R
<1>8. /\ v \in Worlds /\ v.ran = R /\ v.ue = w.ue /\ v.free = w.free
      /\ v.queue = w.queue
  BY <1>5, <1>7 DEF Worlds
<1>9. Commits(v)
  BY <1>4 DEF R
<1> HIDE DEF v
<1>10. PointsBack(v)
  BY <1>4, <1>6, <1>8 DEF Good, PointsBack
<1>11. Exact(v) /\ Leaving(v)
  BY <1>4, <1>6, <1>8, ExactFrame, LeavingFrame DEF Good
<1>12. Good(v)
  BY <1>4, <1>6, <1>8, <1>10, <1>11 DEF Good
<1> QED
  BY <1>9, <1>12, CommitsGood

\* An answer acts on the context the UE has then.
LEMMA AnsweredPendingGood ==
    ASSUME IInv, NEW u \in Ues, NEW update \in UpdateKinds
    PROVE  LET w == [Now EXCEPT !.pending[u] = @ \ {update}]
           IN Good(w) /\ w.ran = ran /\ w.ue = ue
<1> DEFINE S == pending[u] \ {update}
<1>1. Good(Now) /\ Now.pending = pending /\ Now.ran = ran /\ Now.ue = ue
  BY DEF IInv, Now
<1>2. S \in SUBSET UpdateKinds
  BY <1>1 DEF Good, Worlds
<1>3. [Now EXCEPT !.pending[u] = @ \ {update}] = [Now EXCEPT !.pending[u] = S]
  BY <1>1
<1> HIDE DEF S
<1> QED
  BY <1>1, <1>2, <1>3, PendingGood

LEMMA AnsweredGood ==
    ASSUME IInv, NEW u \in Ues, NEW update \in UpdateKinds, Answered(u, update)
    PROVE  IInv'
<1> DEFINE w == [Now EXCEPT !.pending[u] = @ \ {update}]
           c == w.ue[u].ran
           left == IF Connected(w, u) THEN RemoveRan(w, c) ELSE w
<1>1. Good(w)
  BY AnsweredPendingGood
<1>2. "unlink" \in Actions /\ "ue" \in Actions
  BY DEF Actions
<1>3. ASSUME NEW a \in {"unlink", "ue"}, NEW x, Asserted(w, u, Release(w, u, a), x)
      PROVE  IInv'
  <2> HIDE DEF w
  <2> QED
    BY <1>1, <1>2, <1>3, ReleaseGood, AssertedGood
<1>4. CASE Commits(w)
  BY <1>1, <1>4, CommitsGood
<1>5. CASE Commits(Unlink(left, u))
  <2> HIDE DEF w
  <2>1. CASE Connected(w, u)
    <3> DEFINE r == RemoveRan(w, c)
    <3>1. c \in Contexts /\ w.ran[c].live
      BY <1>1, <2>1, OnlyItsOwn
    <3>2. /\ Good(r)
          /\ \A d \in Contexts : /\ r.ran[d].live <=> w.ran[d].live /\ d # c
                                 /\ r.ran[d].ue = w.ran[d].ue
      BY <1>1, <3>1, RemoveRanGood
    <3>3. Commits(Unlink(r, u))
      BY <1>5, <2>1
    <3> HIDE DEF r
    <3>4. Unnamed(r, u)
      BY <1>1, <3>2, OnlyItsOwn DEF Unnamed
    <3> QED
      BY <3>2, <3>3, <3>4, UnlinkGood, CommitsGood
  <2>2. CASE ~Connected(w, u)
    BY <1>1, <1>5, <2>2, OnlyItsOwn, UnlinkGood, CommitsGood
  <2> QED
    BY <2>1, <2>2
<1> QED
  BY <1>3, <1>4, <1>5, AbortGood DEF Answered

LEMMA FailedGood ==
    ASSUME IInv, NEW u \in Ues, NEW update \in UpdateKinds, Failed(u, update)
    PROVE  IInv'
  BY AnsweredPendingGood, ExceptsGood, CommitsGood, AbortGood DEF Failed

-----------------------------------------------------------------------------
\* What the gNBs and the timers do.
LEMMA GnbGood ==
    ASSUME IInv, NEW g \in Gnbs, SendInitial(g) \/ LoseAll(g)
    PROVE  IInv'
<1>1. radio \in [Gnbs -> [Contexts -> Phases]]
  BY DEF IInv, Good, Now, Worlds
<1>2. CASE SendInitial(g)
  <2>1. PICK s \in Subs \cup {NULL}, tmsi \in BOOLEAN : Sends(Initial(g, s, tmsi)) /\ UNCHANGED radio
    BY <1>2 DEF SendInitial
  <2>2. Initial(g, s, tmsi) \in Events
    BY DEF Initial, Events
  <2> QED
    BY <1>1, <2>1, <2>2, SendsGood
<1>3. CASE LoseAll(g)
  <2>1. PICK type \in {"reset", "refused"} : Sends(OfGnb(type, g))
    BY <1>3 DEF LoseAll
  <2>2. OfGnb(type, g) \in Events
    BY DEF OfGnb, Events
  <2>3. radio' \in [Gnbs -> [Contexts -> Phases]]
    BY <1>1, <1>3 DEF LoseAll, Phases
  <2> QED
    BY <2>1, <2>2, <2>3, SendsGood
<1> QED
  BY <1>2, <1>3

LEMMA ConnectionGood ==
    ASSUME IInv, NEW g \in Gnbs, NEW c \in Contexts,
           SendUplink(g, c) \/ SendComplete(g, c) \/ SendPartialReset(g, c)
    PROVE  IInv'
<1>1. radio \in [Gnbs -> [Contexts -> Phases]]
  BY DEF IInv, Good, Now, Worlds
<1>2. CASE SendUplink(g, c)
  <2>1. PICK type \in {"uplink", "setup failure", "release request"} :
            Sends(OfContext(type, c)) /\ UNCHANGED radio
    BY <1>2 DEF SendUplink
  <2>2. OfContext(type, c) \in Events
    BY DEF OfContext, Events
  <2> QED
    BY <1>1, <2>1, <2>2, SendsGood
<1>3. CASE SendComplete(g, c) \/ SendPartialReset(g, c)
  <2> DEFINE Q == [radio EXCEPT ![g][c] = "none"]
  <2>1. radio' = Q /\ Q \in [Gnbs -> [Contexts -> Phases]]
    <3>1. radio' = Q
      BY <1>3 DEF SendComplete, SendPartialReset
    <3>2. "none" \in Phases
      BY DEF Phases
    <3> QED
      BY <1>1, <3>1, <3>2
  <2> HIDE DEF Q
  <2>2. OfContext("complete", c) \in Events /\ OfContext("partial reset", c) \in Events
    BY DEF OfContext, Events
  <2> QED
    BY <1>3, <2>1, <2>2, SendsGood DEF SendComplete, SendPartialReset
<1> QED
  BY <1>2, <1>3

LEMMA HoldingExpiresGood ==
    ASSUME IInv, NEW c \in Contexts, HoldingExpires(c)
    PROVE  IInv'
<1>1. /\ Good(Now) /\ Now \in Worlds /\ Now.ran = ran /\ Now.ue = ue
      /\ Now.free = free /\ Now.queue = queue
  BY DEF IInv, Good, Now
<1>2. /\ ran \in [Contexts -> RanUes] /\ queue \in Seq(Events)
      /\ free \in Seq(Contexts) /\ ue \in [Ues -> AmfUes]
      /\ pending \in [Ues -> SUBSET UpdateKinds] /\ radio \in [Gnbs -> [Contexts -> Phases]]
  BY <1>1 DEF Now, Worlds
<1>3. OfContext("holding", c) \in Events
  BY DEF OfContext, Events
<1>4. queue' \in Seq(Events)
  BY <1>2, <1>3 DEF HoldingExpires, Pushes
<1>5. ran' \in [Contexts -> RanUes]
  BY <1>2, ZenonT(60) DEF HoldingExpires, RanUes
<1>6. /\ Now' \in Worlds /\ Now'.ran = ran' /\ Now'.ue = ue /\ Now'.free = free
      /\ Now'.queue = Append(queue, OfContext("holding", c))
  BY <1>2, <1>4, <1>5 DEF Now, Worlds, HoldingExpires, Pushes
<1>7. \A d \in Contexts : ran'[d] = IF d = c THEN [ran[c] EXCEPT !.holding = FALSE] ELSE ran[d]
  BY <1>2 DEF HoldingExpires
<1>8. \A d \in Contexts : /\ ran'[d].live = ran[d].live /\ ran'[d].ue = ran[d].ue
                          /\ ran'[d].action = ran[d].action
                          /\ ran'[d].holding => ran[d].holding
                          /\ d # c => ran'[d].holding = ran[d].holding
  BY <1>2, <1>7 DEF RanUes
<1>9. PointsBack(Now')
  BY <1>1, <1>6, <1>8 DEF Good, PointsBack
<1>10. Exact(Now')
  BY <1>1, <1>6, <1>8, ExactFrame DEF Good
<1>11. ASSUME NEW v, v.queue = Append(queue, OfContext("holding", c)), NEW d \in Contexts
       PROVE  /\ Awaited(Now, d, {"holding"}) => Awaited(v, d, {"holding"})
              /\ d = c => Awaited(v, d, {"holding"})
  BY <1>1, <1>2, <1>3, <1>11, AppendAwaited
<1>12. \A d \in Contexts : /\ Awaited(Now, d, {"holding"}) => Awaited(Now', d, {"holding"})
                           /\ d = c => Awaited(Now', d, {"holding"})
  BY <1>6, <1>11
<1>13. Leaving(Now')
  BY <1>1, <1>6, <1>8, <1>12 DEF Good, Leaving
<1>14. Good(Now')
  BY <1>1, <1>6, <1>8, <1>9, <1>10, <1>13 DEF Good
<1> QED
  BY <1>14 DEF IInv

LEMMA InitInv == Init => IInv
<1> SUFFICES ASSUME Init PROVE IInv
  OBVIOUS
<1>1. Now = Started
  BY DEF Init, Now, Started
<1> QED
  BY <1>1, StartedGood DEF IInv

LEMMA NextInv == IInv /\ [Next]_vars => IInv'
<1> SUFFICES ASSUME IInv, [Next]_vars PROVE IInv'
  OBVIOUS
<1>1. CASE InitialUeMessage
  BY <1>1, InitialUeMessageGood
<1>2. CASE UplinkNasTransport
  BY <1>2, UplinkNasTransportGood
<1>3. CASE FivegmmMessage
  BY <1>3, FivegmmMessageGood
<1>4. CASE ReleaseComplete
  BY <1>4, ReleaseCompleteGood
<1>5. CASE SetupFailure
  BY <1>5, SetupFailureGood
<1>6. CASE ReleaseRequest
  BY <1>6, ReleaseRequestGood
<1>7. CASE NgReset
  BY <1>7, NgResetGood
<1>8. CASE ConnectionRefused
  BY <1>8, ConnectionRefusedGood
<1>9. CASE PartialReset
  BY <1>9, PartialResetGood
<1>10. ASSUME NEW g \in Gnbs, LoseAll(g) \/ SendInitial(g) PROVE IInv'
  BY <1>10, GnbGood
<1>11. ASSUME NEW g \in Gnbs, NEW c \in Contexts,
              SendUplink(g, c) \/ SendComplete(g, c) \/ SendPartialReset(g, c)
       PROVE  IInv'
  BY <1>11, ConnectionGood
<1>12. ASSUME NEW c \in Contexts, HoldingExpires(c) PROVE IInv'
  BY <1>12, HoldingExpiresGood
<1>13. ASSUME NEW u \in Ues, NEW update \in UpdateKinds,
              Answered(u, update) \/ Failed(u, update)
       PROVE  IInv'
  BY <1>13, AnsweredGood, FailedGood
<1>14. CASE UNCHANGED vars
  <2>1. Now' = Now
    BY <1>14 DEF vars, Now
  <2>2. Good(Now')
    BY <2>1 DEF IInv
  <2> QED
    BY <2>2 DEF IInv
<1> QED
  BY <1>1, <1>2, <1>3, <1>4, <1>5, <1>6, <1>7, <1>8, <1>9, <1>10, <1>11, <1>12, <1>13,
     <1>14 DEF Next, Handle

LEMMA InvTypeOK == IInv => TypeOK
<1> SUFFICES ASSUME IInv PROVE TypeOK
  OBVIOUS
<1>1. Now \in Worlds /\ \A c \in Contexts : Now.ran[c].holding => Now.ran[c].live
  BY DEF IInv, Good
<1> QED
  BY <1>1 DEF TypeOK, Now, Worlds, RanUes, AmfUes, Phases

-----------------------------------------------------------------------------
\* The variables keep their types, and the timer of a freed context never runs,
\* whatever order messages, expiries and answers come in.
THEOREM TypeCorrect == Spec => []TypeOK
<1>1. Spec => []IInv
  BY InitInv, NextInv, PTL DEF Spec
<1> QED
  BY <1>1, InvTypeOK, PTL

\* A context in use never names a UE that was removed or has another context: the
\* handlers keep the two pointers of amf_ue_t and ran_ue_t in agreement.
THEOREM ContextsAgree == Spec => []RanPointsBack
<1>1. Spec => []IInv
  BY InitInv, NextInv, PTL DEF Spec
<1>2. IInv => RanPointsBack
  BY DEF IInv, Good, RanPointsBack
<1> QED
  BY <1>1, <1>2, PTL

\* A place is never given out twice nor lost: removals by completes, expiries, resets,
\* answers and a second registration each happen at most once.
THEOREM PoolExact == Spec => []PlacesExact
<1>1. Spec => []IInv
  BY InitInv, NextInv, PTL DEF Spec
<1>2. IInv => PlacesExact
  BY DEF IInv, Good, PlacesExact
<1> QED
  BY <1>1, <1>2, PTL

\* A context the AMF has released has its holding timer running, or the expiry
\* waits in the queue: no handler forgets it or stops the timer.
THEOREM ReleasedLeaves == Spec => []CommandedLeaves
<1>1. Spec => []IInv
  BY InitInv, NextInv, PTL DEF Spec
<1>2. IInv => CommandedLeaves
  BY DEF IInv, Good, CommandedLeaves
<1> QED
  BY <1>1, <1>2, PTL

-----------------------------------------------------------------------------
(* A context without a UE stays in reach: IInv /\ CInv is inductive.       *)

CInv == NoneIdle(Now)

\* The handler ends without another idle context, or with the AMF.
Settles(w) == \/ \E v : Commits(v) /\ NotMore(v, w)
              \/ \E a : Abort(a)

LEMMA BecomesNone == ASSUME NEW w, NoneIdle(w), Becomes(w) PROVE CInv'
<1>1. Now'.ran = w.ran
  BY DEF Becomes, Now
<1>2. NotMore(Now', w)
  BY <1>1 DEF NotMore, Idle
<1>3. NoneIdle(Now')
  BY <1>2, NotMoreNone
<1> QED
  BY <1>3 DEF CInv

LEMMA SettlesNone == ASSUME NEW w, NoneIdle(w), Settles(w) PROVE CInv'
<1>1. ASSUME NEW v, Commits(v), NotMore(v, w) PROVE CInv'
  BY <1>1, NotMoreNone, BecomesNone DEF Commits
<1>2. ASSUME NEW a, Abort(a) PROVE CInv'
  <2>1. NoneIdle(Started)
    BY DEF NoneIdle, Idle, Started
  <2> QED
    BY <1>2, <2>1, BecomesNone DEF Abort
<1> QED
  BY <1>1, <1>2 DEF Settles

LEMMA SettlesSooner ==
    ASSUME NEW w, NEW x, NotMore(x, w), Settles(x)
    PROVE  Settles(w)
  BY NotMoreTransitive DEF Settles

LEMMA CommitsSettles == ASSUME NEW w, Commits(w) PROVE Settles(w)
<1>1. NotMore(w, w)
  BY DEF NotMore
<1> QED
  BY <1>1 DEF Settles

LEMMA AssertedSettles ==
    ASSUME NEW w, NEW x, NEW u, NEW v, NEW a, Asserted(x, u, v, a), NotMore(v, w)
    PROVE  Settles(w)
  BY DEF Asserted, Settles

LEMMA UpdatesSettles ==
    ASSUME NEW w, Good(w), NEW u, NEW update, Updates(w, u, update)
    PROVE  Settles(w)
  BY UesIdle DEF Updates, Settles

LEMMA ReleasesSettles ==
    ASSUME NEW w, Good(w), NEW u \in Ues, NEW a \in {"unlink", "ue"}, NEW x,
           Asserted(w, u, Release(w, u, a), x)
    PROVE  Settles(w)
<1>1. a \in Actions \ {"none"}
  BY DEF Actions
<1> QED
  BY <1>1, ReleaseIdle, AssertedSettles

LEMMA ExceptsSettles ==
    ASSUME NEW w, Good(w), NEW u \in Ues, Excepts(w, u)
    PROVE  Settles(w)
  BY UpdatesSettles, ReleasesSettles DEF Excepts, Settles

LEMMA GmmMessageSettles ==
    ASSUME NEW w, Good(w), NEW u \in Ues, Connected(w, u), GmmMessage(w, u)
    PROVE  Settles(w)
<1> DEFINE c == w.ue[u].ran
<1>1. c \in Contexts /\ w.ran[c].live
  BY OnlyItsOwn
<1>2. CASE Commits(w)
  BY <1>2, CommitsSettles
<1>3. CASE Updates(w, u, "registered") \/ Updates(w, u, "deregistered")
  BY <1>3, UpdatesSettles
<1>4. ASSUME NEW s \in Subs, Commits(SetSuci(w, u, s)) PROVE Settles(w)
  BY <1>4, SetSuciGood DEF Settles
<1>5. CASE Excepts(w, u)
  BY <1>5, ExceptsSettles
<1>6. CASE Asserted(w, u, Release(w, u, "unlink"), "deregistration accept")
  BY <1>6, ReleasesSettles
<1>7. CASE Asserted(w, u, Command(Detach(w, c), c, "context"), "release command")
  <2> HIDE DEF c
  <2>1. NotMore(Command(Detach(w, c), c, "context"), w)
    BY <1>1, DetachedIdle
  <2> QED
    BY <1>7, <2>1, AssertedSettles
<1> QED
  BY <1>2, <1>3, <1>4, <1>5, <1>6, <1>7 DEF GmmMessage

LEMMA DispatchSettles ==
    ASSUME NEW w, Good(w), NEW u \in Ues, Dispatch(w, u)
    PROVE  Settles(w)
<1>1. CASE Commits(w)
  BY <1>1, CommitsSettles
<1>2. CASE Abort("5GMM message")
  BY <1>2 DEF Settles
<1>3. CASE Connected(w, u) /\ GmmMessage(w, u)
  BY <1>3, GmmMessageSettles
<1> QED
  BY <1>1, <1>2, <1>3 DEF Dispatch

LEMMA PoppedNone == ASSUME CInv PROVE NoneIdle(Popped)
<1>1. Popped.ran = ran /\ Now.ran = ran
  BY DEF Popped, Now
<1> QED
  BY <1>1 DEF CInv, NoneIdle, Idle

\* The gNB of a new context is there.
LEMMA AddRanIdle ==
    ASSUME NEW w \in Worlds, NEW c \in Contexts, NEW g
    PROVE  NotMore(AddRan(w, c, g), w)
<1> DEFINE v == AddRan(w, c, g)
           r == [live |-> TRUE, gnb |-> g, ue |-> NULL, action |-> "none",
                 holding |-> FALSE, cut |-> FALSE]
<1>1. v.ran = [w.ran EXCEPT ![c] = r]
  BY DEF AddRan, Worlds
<1>2. ~r.cut
  OBVIOUS
<1> HIDE DEF v, r
<1>3. NotMore(v, w)
  BY <1>1, <1>2, PlaceIdle
<1> QED
  BY <1>3 DEF v

LEMMA InitialUeMessageNone == ASSUME IInv, CInv, InitialUeMessage PROVE CInv'
<1> DEFINE e == Head(queue)
           c == Head(free)
           w == AddRan(Popped, c, e.gnb)
<1>1. queue # <<>> /\ e.type = "initial"
  BY DEF InitialUeMessage, Takes
<1>2. /\ Good(Popped) /\ Popped.ue = ue /\ Popped.free = free
      /\ e \in Events /\ NoneIdle(Popped)
  BY <1>1, PoppedGood, PoppedNone
<1>3. e.gnb \in Gnbs /\ e.sub \in Subs \cup {NULL}
  BY <1>1, <1>2 DEF Events
<1>4. SUFFICES Settles(Popped)
  BY <1>2, SettlesNone
<1> HIDE DEF e, c
<1>5. CASE Commits(Popped)
  BY <1>5, CommitsSettles
<1>6. ASSUME NEW d \in Contexts, NEW v \in ToNas(ReuseRan(Popped, d, e.gnb), d, e.sub), Commits(v)
      PROVE  Settles(Popped)
  <2>1. Good(ReuseRan(Popped, d, e.gnb)) /\ NotMore(ReuseRan(Popped, d, e.gnb), Popped)
    BY <1>2, <1>3, ReuseRanGood
  <2>2. NotMore(v, ReuseRan(Popped, d, e.gnb))
    BY <1>3, <1>6, <2>1, ToNasGood
  <2> QED
    BY <1>6, <2>1, <2>2, NotMoreTransitive DEF Settles
<1>7. ASSUME free # <<>>, c \in Contexts, NEW v \in ToNas(w, c, e.sub),
             Commits(v) \/ \E u \in Known(e.sub) : Asserted(v, u, Move(v, u, c), "release command")
      PROVE  Settles(Popped)
  <2>1. Good(w) /\ w.ue = ue
    BY <1>2, <1>3, <1>7, AddRanGood DEF c
  <2>2. NotMore(w, Popped)
    BY <1>2, <1>7, AddRanIdle DEF Good
  <2> HIDE DEF w
  <2>3. Good(v) /\ v.ue = ue /\ NotMore(v, Popped)
    BY <1>3, <1>7, <2>1, <2>2, ToNasGood, NotMoreTransitive
  <2>4. ASSUME NEW u \in Known(e.sub) PROVE NotMore(Move(v, u, c), Popped)
    <3>1. u \in Ues
      BY DEF Known
    <3>2. NotMore(Move(v, u, c), v)
      BY <1>7, <2>3, <3>1, MoveIdle
    <3> QED
      BY <2>3, <3>2, NotMoreTransitive
  <2> QED
    BY <1>7, <2>3, <2>4, AssertedSettles DEF Settles
<1> QED
  BY <1>5, <1>6, <1>7, InitialUeMessageCases DEF e, c

LEMMA UplinkNasTransportNone == ASSUME IInv, CInv, UplinkNasTransport PROVE CInv'
<1> DEFINE c == Head(queue).ran
<1>1. queue # <<>> /\ Head(queue).type = "uplink"
  BY DEF UplinkNasTransport, Takes
<1>2. /\ Good(Popped) /\ Popped.ran = ran /\ Popped.ue = ue /\ Head(queue) \in Events
      /\ NoneIdle(Popped)
  BY <1>1, PoppedGood, PoppedNone
<1>3. c \in Contexts
  BY <1>1, <1>2 DEF Events
<1>4. SUFFICES Settles(Popped)
  BY <1>2, SettlesNone
<1>5. CASE Commits(Popped)
  BY <1>5, CommitsSettles
<1>6. ASSUME ran[c].live, ran[c].ue # NULL, NEW s \in {ue[ran[c].ue].sub, NULL},
             NEW w \in ToNas(Popped, c, s), Commits(w)
      PROVE  Settles(Popped)
  <2>1. ran \in [Contexts -> RanUes] /\ ue \in [Ues -> AmfUes]
    BY <1>2 DEF Good, Worlds
  <2>2. s \in Subs \cup {NULL}
    BY <1>3, <1>6, <2>1 DEF RanUes, AmfUes
  <2> QED
    BY <1>2, <1>3, <1>6, <2>2, ToNasGood DEF Settles
<1> QED
  BY <1>5, <1>6 DEF UplinkNasTransport

\* The message finds the UE of its context, gives it one, or ends it, or is dropped.
LEMMA FivegmmMessageNone == ASSUME IInv, CInv, FivegmmMessage PROVE CInv'
<1> DEFINE e == Head(queue)
           c == e.ran
<1>1. queue # <<>> /\ e.type = "5gmm"
  BY DEF FivegmmMessage, Takes
<1>2. /\ Good(Popped) /\ Popped.ran = ran /\ Popped.ue = ue /\ e \in Events
      /\ NoneIdle(Popped)
  BY <1>1, PoppedGood, PoppedNone
<1>3. c \in Contexts
  BY <1>1, <1>2 DEF Events
<1>4. ran[c].ue \in Ues \cup {NULL}
  BY <1>2, <1>3 DEF Good, Worlds, RanUes
<1>5. SUFFICES Settles(Popped)
  BY <1>2, SettlesNone
<1> HIDE DEF c
<1>6. CASE Commits(Popped)
  BY <1>6, CommitsSettles
<1>7. ASSUME ran[c].ue # NULL, Dispatch(Popped, ran[c].ue) PROVE Settles(Popped)
  BY <1>2, <1>4, <1>7, DispatchSettles
<1>8. ASSUME NEW u \in Known(e.sub), Dispatch(Move(Popped, u, c), u) PROVE Settles(Popped)
  <2>1. u \in Ues /\ Popped.ue[u].live
    BY <1>2 DEF Known
  <2>2. Good(Move(Popped, u, c)) /\ NotMore(Move(Popped, u, c), Popped)
    BY <1>2, <1>3, <2>1, MoveGood, MoveIdle
  <2>3. Settles(Move(Popped, u, c))
    BY <1>8, <2>1, <2>2, DispatchSettles
  <2> QED
    BY <2>2, <2>3, SettlesSooner
<1>9. ASSUME NEW u \in Ues, ~ue[u].live, Dispatch(Associate(AddUe(Popped, u), u, c), u)
      PROVE  Settles(Popped)
  <2> DEFINE added == AddUe(Popped, u)
  <2>1. Unnamed(Popped, u)
    BY <1>2, <1>9, OnlyItsOwn DEF Unnamed
  <2>2. Good(added) /\ added.ran = Popped.ran /\ added.ue[u].live /\ NotMore(added, Popped)
    BY <1>2, <2>1, AddUeGood, UesIdle
  <2> HIDE DEF added
  <2>3. \A d \in Contexts : added.ran[d].live => added.ran[d].ue # u
    BY <2>1, <2>2 DEF Unnamed
  <2>4. Good(Associate(added, u, c))
    BY <1>3, <2>2, <2>3, AssociateGood
  <2>5. NotMore(Associate(added, u, c), Popped)
    BY <1>3, <2>2, AssociateIdle, NotMoreTransitive
  <2> QED
    BY <1>9, <2>4, <2>5, DispatchSettles, SettlesSooner DEF added
<1>10. ASSUME Commits(Command(Popped, c, "context")) PROVE Settles(Popped)
  <2>1. "context" \in Actions \ {"none"}
    BY DEF Actions
  <2> QED
    BY <1>2, <1>3, <1>10, <2>1, CommandIdle DEF Settles
<1>11. ASSUME Abort("timer of a freed context") PROVE Settles(Popped)
  BY <1>11 DEF Settles
<1> QED
  BY <1>6, <1>7, <1>8, <1>9, <1>10, <1>11 DEF FivegmmMessage, c

\* The other handlers leave no other context idle.
LEMMA ReleaseCompleteNone == ASSUME IInv, CInv, ReleaseComplete PROVE CInv'
<1> DEFINE c == Head(queue).ran
<1>1. queue # <<>> /\ Head(queue).type \in {"complete", "holding"}
  BY DEF ReleaseComplete, Takes
<1>2. Head(queue) \in Events
  BY <1>1, NowGood
<1>3. c \in Contexts /\ NoneIdle(Popped)
  BY <1>1, <1>2, PoppedNone DEF Events
<1>4. NotMore(ReleaseAction(c), Popped)
  BY <1>1, <1>3, ReleaseActionGood
<1> QED
  BY <1>3, <1>4, SettlesNone DEF ReleaseComplete, Settles

LEMMA FailureAndRequestNone ==
    ASSUME IInv, CInv, SetupFailure \/ ReleaseRequest \/ PartialReset PROVE CInv'
<1> DEFINE c == Head(queue).ran
           u == ran[c].ue
<1>1. /\ queue # <<>>
      /\ Head(queue).type \in {"setup failure", "release request", "partial reset"}
  BY DEF SetupFailure, ReleaseRequest, PartialReset, Takes
<1>2. /\ Good(Popped) /\ Popped.ran = ran /\ Head(queue) \in Events /\ NoneIdle(Popped)
  BY <1>1, PoppedGood, PoppedNone
<1>3. c \in Contexts
  BY <1>1, <1>2 DEF Events
<1>4. u \in Ues \cup {NULL} /\ "context" \in Actions \ {"none"}
  BY <1>2, <1>3 DEF Good, Worlds, RanUes, Actions
<1>5. SUFFICES Settles(Popped)
  BY <1>2, SettlesNone
<1> HIDE DEF c, u
<1>6. CASE Commits(Popped)
  BY <1>6, CommitsSettles
<1>7. ASSUME Commits(Command(Popped, c, "context")) PROVE Settles(Popped)
  BY <1>2, <1>3, <1>4, <1>7, CommandIdle DEF Settles
<1>8. ASSUME NEW update, Updates(Popped, u, update) PROVE Settles(Popped)
  BY <1>2, <1>8, UpdatesSettles
<1>9. ASSUME u # NULL, Asserted(Popped, u, Release(Popped, u, "unlink"), "release command")
      PROVE  Settles(Popped)
  BY <1>2, <1>4, <1>9, ReleasesSettles
<1>10. ASSUME Commits(RemoveRan(Popped, c)) PROVE Settles(Popped)
  BY <1>2, <1>3, <1>10, RemoveRanIdle DEF Settles, Good
<1>11. ASSUME NEW a, Abort(a) PROVE Settles(Popped)
  BY <1>11 DEF Settles
<1>12. CASE SetupFailure
  BY <1>6, <1>7, <1>8, <1>11, <1>12 DEF SetupFailure, c, u
<1>13. CASE ReleaseRequest
  BY <1>6, <1>7, <1>8, <1>9, <1>11, <1>13 DEF ReleaseRequest, c, u
<1>14. CASE PartialReset
  BY <1>6, <1>8, <1>10, <1>11, <1>14 DEF PartialReset, c, u
<1> QED
  BY <1>12, <1>13, <1>14

\* The contexts of a lost gNB that stay have a UE.
LEMMA DeactivateAllIdle ==
    ASSUME IInv, queue # <<>>, Head(queue).type # "holding", NEW g, NEW sessions \in SUBSET Ues
    PROVE  LET w == DeactivateAll(g, sessions)
           IN /\ NotMore(w, Popped)
              /\ \A c \in Contexts : w.ran[c].live /\ w.ran[c].gnb = g /\ ~w.ran[c].cut =>
                    w.ran[c].ue # NULL
<1> DEFINE mine    == {c \in Contexts : ran[c].live /\ ran[c].gnb = g /\ ~ran[c].cut}
           waiting == {c \in mine : ran[c].ue \in sessions}
           gone    == mine \ waiting
           owners  == {ran[c].ue : c \in gone}
           R == [c \in Contexts |-> IF c \in gone THEN Freed(ran[c]) ELSE ran[c]]
           E == [u \in Ues |-> IF u \in owners THEN [ue[u] EXCEPT !.ran = NULL] ELSE ue[u]]
           P == [u \in Ues |-> IF \E c \in waiting : ran[c].ue = u
                               THEN pending[u] \cup {"removed"} ELSE pending[u]]
           F == Popped.free \o SetToSeq(gone)
           v == [Popped EXCEPT !.ran = R, !.free = F, !.ue = E, !.pending = P]
<1>1. Popped \in Worlds /\ Popped.ran = ran /\ ran \in [Contexts -> RanUes]
  BY PoppedGood DEF Good, Worlds
<1>2. v = DeactivateAll(g, sessions)
  BY DEF DeactivateAll
<1>3. \A c \in Contexts : ~Freed(ran[c]).live
  BY <1>1 DEF RanUes, Freed
<1>4. \A c \in Contexts : R[c].live => c \notin gone /\ R[c] = ran[c]
  BY <1>3
<1>5. \A c \in mine \ gone : ran[c].ue # NULL
  BY NotNull
<1>6. \A c \in Contexts : R[c].live /\ R[c].gnb = g /\ ~R[c].cut => R[c].ue # NULL
  BY <1>4, <1>5
<1> HIDE DEF R, E, P, F
<1>7. v.ran = R
  BY <1>1 DEF Worlds
<1> HIDE DEF v
<1>8. NotMore(v, Popped)
  BY <1>1, <1>4, <1>7 DEF NotMore, Idle
<1> QED
  BY <1>2, <1>6, <1>7, <1>8

LEMMA GnbLostNone == ASSUME IInv, CInv, NgReset \/ ConnectionRefused PROVE CInv'
<1> DEFINE g == Head(queue).gnb
<1>1. queue # <<>> /\ Head(queue).type \in {"reset", "refused"}
  BY DEF NgReset, ConnectionRefused, Takes
<1>2. Head(queue) \in Events /\ NoneIdle(Popped)
  BY <1>1, NowGood, PoppedNone
<1>3. g \in Gnbs
  BY <1>1, <1>2 DEF Events
<1>4. SUFFICES Settles(Popped)
  BY <1>2, SettlesNone
<1> HIDE DEF g
<1>5. CASE NgReset
  <2>1. PICK sessions \in SUBSET Ues : Commits(DeactivateAll(g, sessions))
    BY <1>5 DEF NgReset, g
  <2> QED
    BY <1>1, <2>1, DeactivateAllIdle DEF Settles
<1>6. CASE ConnectionRefused
  <2>1. PICK sessions \in SUBSET Ues :
           LET w == DeactivateAll(g, sessions)
           IN Commits([w EXCEPT !.ran = [c \in Contexts |->
                        [w.ran[c] EXCEPT !.cut = @ \/ (w.ran[c].live /\ w.ran[c].gnb = g)]]])
    BY <1>6 DEF ConnectionRefused, g
  <2> DEFINE w == DeactivateAll(g, sessions)
             R == [c \in Contexts |->
                    [w.ran[c] EXCEPT !.cut = @ \/ (w.ran[c].live /\ w.ran[c].gnb = g)]]
             v == [w EXCEPT !.ran = R]
  <2>2. /\ Good(w) /\ NotMore(w, Popped)
        /\ \A c \in Contexts : w.ran[c].live /\ w.ran[c].gnb = g /\ ~w.ran[c].cut =>
              w.ran[c].ue # NULL
    BY <1>1, <1>3, DeactivateAllGood, DeactivateAllIdle
  <2>3. Commits(v)
    BY <2>1
  <2> HIDE DEF w
  <2>4. w \in Worlds /\ w.ran \in [Contexts -> RanUes]
    BY <2>2 DEF Good, Worlds
  <2>5. \A c \in Contexts :
           /\ R[c].live = w.ran[c].live /\ R[c].ue = w.ran[c].ue
           /\ R[c].action = w.ran[c].action
           /\ R[c].cut => w.ran[c].cut \/ (w.ran[c].live /\ w.ran[c].gnb = g)
    BY <2>4 DEF RanUes
  <2> HIDE DEF R
  <2>6. v.ran = R
    BY <2>4 DEF Worlds
  <2> HIDE DEF v
  <2>7. NotMore(v, w)
    BY <2>2, <2>5, <2>6 DEF NotMore, Idle
  <2> QED
    BY <2>2, <2>3, <2>7, NotMoreTransitive DEF Settles
<1> QED
  BY <1>5, <1>6

\* An answer, or its absence, acts on the context the UE has then.
LEMMA AnswersNone ==
    ASSUME IInv, CInv, NEW u \in Ues, NEW update \in UpdateKinds,
           Answered(u, update) \/ Failed(u, update)
    PROVE  CInv'
<1> DEFINE S == Now.pending[u] \ {update}
           w == [Now EXCEPT !.pending[u] = S]
           c == w.ue[u].ran
           left == IF Connected(w, u) THEN RemoveRan(w, c) ELSE w
<1>1. Good(w)
  BY AnsweredPendingGood
<1>2. NotMore(w, Now)
  BY UesIdle DEF IInv
<1>3. SUFFICES Settles(w)
  BY <1>2, SettlesSooner, SettlesNone DEF CInv
<1>4. CASE Answered(u, update)
  <2>1. \/ Commits(w)
        \/ \E a \in {"unlink", "ue"} : \E x : Asserted(w, u, Release(w, u, a), x)
        \/ Commits(Unlink(left, u))
        \/ \E a : Abort(a)
    BY <1>4 DEF Answered
  <2>2. CASE Commits(Unlink(left, u))
    <3> HIDE DEF w
    <3>1. Good(left) /\ NotMore(left, w)
      <4>1. CASE Connected(w, u)
        <5>1. c \in Contexts /\ w.ran[c].live /\ w \in Worlds
          BY <1>1, <4>1, OnlyItsOwn DEF Good
        <5> QED
          BY <1>1, <4>1, <5>1, RemoveRanGood, RemoveRanIdle
      <4>2. CASE ~Connected(w, u)
        BY <1>1, <4>2 DEF NotMore
      <4> QED
        BY <4>1, <4>2
    <3> HIDE DEF left
    <3>2. NotMore(Unlink(left, u), w)
      BY <3>1, UesIdle, NotMoreTransitive
    <3> QED
      BY <2>2, <3>2 DEF Settles
  <2> HIDE DEF w, left
  <2>3. CASE \E a \in {"unlink", "ue"} : \E x : Asserted(w, u, Release(w, u, a), x)
    BY <1>1, <2>3, ReleasesSettles
  <2>4. CASE Commits(w) \/ \E a : Abort(a)
    BY <2>4, CommitsSettles DEF Settles
  <2> QED
    BY <2>1, <2>2, <2>3, <2>4
<1>5. CASE Failed(u, update)
  <2>1. Excepts(w, u) \/ Commits(w) \/ Abort("error indication")
    BY <1>5 DEF Failed
  <2> HIDE DEF w
  <2> QED
    BY <1>1, <2>1, ExceptsSettles, CommitsSettles DEF Settles
<1> QED
  BY <1>4, <1>5

\* Messages of the gNBs and expiries leave the contexts as they are.
LEMMA SendsNone == ASSUME CInv, NEW e, Sends(e) PROVE CInv'
<1>1. Now.ran = ran /\ Now'.ran = ran
  BY DEF Sends, Now
<1> QED
  BY <1>1 DEF CInv, NoneIdle, Idle

LEMMA HoldingExpiresNone ==
    ASSUME IInv, CInv, NEW c \in Contexts, HoldingExpires(c)
    PROVE  CInv'
<1>1. ran \in [Contexts -> RanUes] /\ Now.ran = ran /\ Now'.ran = ran'
  BY DEF IInv, Good, Worlds, Now
<1>2. \A d \in Contexts : ran'[d] = IF d = c THEN [ran[c] EXCEPT !.holding = FALSE] ELSE ran[d]
  BY <1>1 DEF HoldingExpires
<1>3. \A d \in Contexts : /\ ran'[d].live = ran[d].live /\ ran'[d].ue = ran[d].ue
                          /\ ran'[d].action = ran[d].action /\ ran'[d].cut = ran[d].cut
  BY <1>1, <1>2 DEF RanUes
<1> QED
  BY <1>1, <1>3 DEF CInv, NoneIdle, Idle

LEMMA InitNone == Init => CInv
  BY DEF Init, CInv, NoneIdle, Idle, Now, Started

LEMMA NextNone == IInv /\ CInv /\ [Next]_vars => CInv'
<1> SUFFICES ASSUME IInv, CInv, [Next]_vars PROVE CInv'
  OBVIOUS
<1>1. CASE InitialUeMessage
  BY <1>1, InitialUeMessageNone
<1>2. CASE UplinkNasTransport
  BY <1>2, UplinkNasTransportNone
<1>3. CASE FivegmmMessage
  BY <1>3, FivegmmMessageNone
<1>4. CASE ReleaseComplete
  BY <1>4, ReleaseCompleteNone
<1>5. CASE SetupFailure \/ ReleaseRequest \/ PartialReset
  BY <1>5, FailureAndRequestNone
<1>6. CASE NgReset \/ ConnectionRefused
  BY <1>6, GnbLostNone
<1>7. ASSUME NEW g \in Gnbs, SendInitial(g) \/ LoseAll(g) PROVE CInv'
  BY <1>7, SendsNone DEF SendInitial, LoseAll
<1>8. ASSUME NEW g \in Gnbs, NEW c \in Contexts,
             SendUplink(g, c) \/ SendComplete(g, c) \/ SendPartialReset(g, c)
      PROVE  CInv'
  BY <1>8, SendsNone DEF SendUplink, SendComplete, SendPartialReset
<1>9. ASSUME NEW c \in Contexts, HoldingExpires(c) PROVE CInv'
  BY <1>9, HoldingExpiresNone
<1>10. ASSUME NEW u \in Ues, NEW update \in UpdateKinds,
              Answered(u, update) \/ Failed(u, update)
       PROVE  CInv'
  BY <1>10, AnswersNone
<1>11. CASE UNCHANGED vars
  BY <1>11 DEF vars, Now, CInv, NoneIdle, Idle
<1> QED
  BY <1>1, <1>2, <1>3, <1>4, <1>5, <1>6, <1>7, <1>8, <1>9, <1>10, <1>11 DEF Next, Handle

\* A context that no UE owns can be ended: its gNB is there, or the AMF has released it
\* and its holding timer runs or has fired.  The messages the AMF cannot use leave some
\* to their gNB; losing that gNB never leaves one to nobody.
THEOREM OrphansStayInReach == Spec => []OrphansInReach
<1>1. IInv /\ CInv => OrphansInReach
  <2> SUFFICES ASSUME IInv, CInv,
                      NEW c \in Contexts, Now.ran[c].live, Now.ran[c].ue = NULL
               PROVE  \/ ~Now.ran[c].cut
                      \/ Now.ran[c].holding \/ Awaited(Now, c, {"holding"})
    BY DEF OrphansInReach, Reach
  <2>1. CASE Now.ran[c].action = "none"
    BY <2>1 DEF CInv, NoneIdle, Idle
  <2>2. CASE Now.ran[c].action # "none"
    BY <2>2 DEF IInv, Good, Leaving
  <2> QED
    BY <2>1, <2>2
<1>2. Spec => [](IInv /\ CInv)
  BY InitInv, NextInv, InitNone, NextNone, PTL DEF Spec
<1> QED
  BY <1>1, <1>2, PTL

=============================================================================
