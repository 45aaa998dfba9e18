-------------------------- MODULE GtpCommand_proofs --------------------------
(***************************************************************************)
(* Proofs of the safety properties of GtpCommand, for every value of the   *)
(* constants.  The invariant says of every transaction (FineX) and of      *)
(* every datagram (FineD) what it may carry and when, of the links what    *)
(* LegsAgree says, and of a command nobody answered yet and that the MME   *)
(* may still send that its legs at the SGW-C are there: until then timers  *)
(* cannot end, and the messages that delete a leg do not exist.            *)
(***************************************************************************)
EXTENDS GtpCommand, TLAPS

\* What x may send, what it may have sent or received last, and what it may
\* have sent when its response timer runs.
SaysOf(x) == CASE x = Mme -> {"command", "reply", "error"}
               [] x = S11 -> {"trigger", "failure"}
               [] x[1] = "s5c" -> {"command", "reply", "error"}
               [] x[1] = "smf" -> {"trigger", "failure"}
               [] x[1] = "s11n" -> {"trigger"}
               [] x[1] = "mmen" -> {"reply", "error"}

LastsOf(x) == CASE x = Mme -> {"command", "trigger", "reply", "error"}
                [] x = S11 -> {"command", "trigger", "failure"}
                [] x[1] = "s5c" -> {"command", "trigger", "failure", "reply", "error"}
                [] x[1] = "smf" -> {"trigger", "failure"}
                [] x[1] = "s11n" -> {"trigger"}
                [] x[1] = "mmen" -> {"trigger", "reply", "error"}

AsksOf(x) == CASE x = Mme -> {"command"}
               [] x = S11 -> {"trigger"}
               [] x[1] = "s5c" -> {"command"}
               [] x[1] \in {"smf", "s11n"} -> {"trigger"}
               [] x[1] = "mmen" -> {}

\* The time that the copies still to be sent take.
Left(rcount) == CASE rcount = 3 -> 2 * T3 [] rcount = 2 -> T3 [] OTHER -> 0

\* A transaction x that is r, when the UE accepted (acc), while the command is
\* undecided (und), a ticks after it was sent.
FineX(x, r, acc, und, a) ==
    r # NULL =>
      /\ r \in Transaction /\ r.last \in LastsOf(x)
      /\ Running(r.response) => r.last \in AsksOf(x)
      /\ x = S11 /\ r.last = "command" => r.rcount = 3
      /\ ~acc => r.last # "reply"
      /\ und => /\ r.last \notin Answers
                /\ Running(r.holding) => r.holding + a >= Patience
                /\ Running(r.response) => r.response + Left(r.rcount) + a >= Patience

FineD(d, acc, und) ==
    /\ d \in [from : Xacts, msg : Messages, ttl : 0 .. MaxDelay]
    /\ d.msg \in SaysOf(d.from)
    /\ ~acc => d.msg # "reply"
    /\ und => d.msg \notin Answers

\* Nobody answered the command and the MME may still send it.
Und == ~answered /\ age # Patience

XactsFine == /\ xact \in [Xacts -> Transaction \cup {NULL}]
             /\ \A x \in Xacts : FineX(x, xact[x], accepted, Und, age)

NetFine == \A d \in net : FineD(d, accepted, Und)

Linked == /\ assoc \in [Forwards -> Legs \cup {None}]
          /\ LegsAgree
          /\ Und => \A g \in Forwards : At(S5c(g), {"command"}) => assoc[g] = S11

Rest == /\ forwards \in 0 .. MaxForwards
        /\ outcome \in {"idle", "pending", "timeout", "refused"} /\ answered \in BOOLEAN
        /\ update \in {x \in Xacts : DaemonOf(x) = "mme"} \cup {None}
        /\ asked \in 0 .. (MaxForwards + 1) /\ (asked > 0 => update # None)
        /\ accepted \in BOOLEAN /\ modified \in BOOLEAN
        /\ down \subseteq Daemons /\ age \in 0 .. Patience
        /\ outcome = "idle" => asked = 0 /\ net = {} /\ \A x \in Xacts : xact[x] = NULL
        /\ ~accepted => ~modified
        /\ Und => down = {} /\ forwards <= 1 /\ (forwards = 1 => Live(S11))

IInv == XactsFine /\ NetFine /\ Linked /\ Rest

-----------------------------------------------------------------------------
LEMMA Numbers ==
    /\ T3 \in Nat /\ T3 >= 1 /\ MaxDelay \in Nat /\ Lag \in Nat /\ MaxForwards \in Nat
    /\ Patience \in Nat /\ Patience = 3 * T3 /\ T3Holding = Patience /\ N3ResponseRcount = 3
    /\ Off \in Int /\ Off < 0 /\ Off < -Lag /\ T3 # Off /\ Patience # Off
  BY GtpAssumption DEF Patience, T3Holding, N3ResponseRcount, Off

\* The names of the transactions are distinct.
LEMMA Names ==
    /\ Mme \in Xacts /\ S11 \in Xacts /\ Mme # S11
    /\ None \notin Xacts /\ None # Mme /\ None # S11
    /\ \A g \in Forwards :
         /\ S5c(g) \in Xacts /\ Smf(g) \in Xacts /\ S11n(g) \in Xacts /\ Mmen(g) \in Xacts
         /\ \A y \in {Mme, S11, None} :
              S5c(g) # y /\ Smf(g) # y /\ S11n(g) # y /\ Mmen(g) # y
         /\ \A h \in Forwards :
              /\ S5c(g) # Smf(h) /\ S5c(g) # S11n(h) /\ S5c(g) # Mmen(h)
              /\ Smf(g) # S11n(h) /\ Smf(g) # Mmen(h) /\ S11n(g) # Mmen(h)
              /\ S5c(g) = S5c(h) => g = h
              /\ S11n(g) = S11n(h) => g = h
  BY DEF Xacts, Mme, S11, S5c, Smf, S11n, Mmen, None

LEMMA Fields ==
    /\ Mme[1] = "mme" /\ S11[1] = "s11" /\ None[1] = "none"
    /\ \A g \in Forwards : /\ S5c(g)[1] = "s5c" /\ S5c(g)[2] = g
                           /\ Smf(g)[1] = "smf" /\ Smf(g)[2] = g
                           /\ S11n(g)[1] = "s11n" /\ S11n(g)[2] = g
                           /\ Mmen(g)[1] = "mmen" /\ Mmen(g)[2] = g
  BY DEF Mme, S11, S5c, Smf, S11n, Mmen, None

LEMMA Kinds ==
    ASSUME NEW x \in Xacts
    PROVE  \/ x = Mme \/ x = S11
           \/ \E g \in Forwards : x = S5c(g) \/ x = Smf(g) \/ x = S11n(g) \/ x = Mmen(g)
  BY DEF Xacts, Mme, S11, S5c, Smf, S11n, Mmen

LEMMA Peers ==
    /\ PeerOf(Mme) = S11 /\ PeerOf(S11) = Mme
    /\ \A g \in Forwards : /\ PeerOf(S5c(g)) = Smf(g) /\ PeerOf(Smf(g)) = S5c(g)
                           /\ PeerOf(S11n(g)) = Mmen(g) /\ PeerOf(Mmen(g)) = S11n(g)
  BY Names, Fields DEF PeerOf

LEMMA Homes ==
    /\ DaemonOf(Mme) = "mme" /\ DaemonOf(S11) = "sgwc"
    /\ \A g \in Forwards : /\ DaemonOf(S5c(g)) = "sgwc" /\ DaemonOf(Smf(g)) = "smf"
                           /\ DaemonOf(S11n(g)) = "sgwc" /\ DaemonOf(Mmen(g)) = "mme"
  BY Fields DEF DaemonOf

LEMMA Tables ==
    /\ SaysOf(Mme) = {"command", "reply", "error"} /\ SaysOf(S11) = {"trigger", "failure"}
    /\ LastsOf(Mme) = {"command", "trigger", "reply", "error"}
    /\ LastsOf(S11) = {"command", "trigger", "failure"}
    /\ AsksOf(Mme) = {"command"} /\ AsksOf(S11) = {"trigger"}
    /\ \A g \in Forwards :
         /\ SaysOf(S5c(g)) = {"command", "reply", "error"}
         /\ SaysOf(Smf(g)) = {"trigger", "failure"}
         /\ SaysOf(S11n(g)) = {"trigger"} /\ SaysOf(Mmen(g)) = {"reply", "error"}
         /\ LastsOf(S5c(g)) = {"command", "trigger", "failure", "reply", "error"}
         /\ LastsOf(Smf(g)) = {"trigger", "failure"}
         /\ LastsOf(S11n(g)) = {"trigger"}
         /\ LastsOf(Mmen(g)) = {"trigger", "reply", "error"}
         /\ AsksOf(S5c(g)) = {"command"} /\ AsksOf(Smf(g)) = {"trigger"}
         /\ AsksOf(S11n(g)) = {"trigger"} /\ AsksOf(Mmen(g)) = {}
<1>1. /\ SaysOf(Mme) = {"command", "reply", "error"} /\ SaysOf(S11) = {"trigger", "failure"}
      /\ \A g \in Forwards :
         /\ SaysOf(S5c(g)) = {"command", "reply", "error"}
         /\ SaysOf(Smf(g)) = {"trigger", "failure"}
         /\ SaysOf(S11n(g)) = {"trigger"} /\ SaysOf(Mmen(g)) = {"reply", "error"}
  BY Names, Fields DEF SaysOf
<1>2. /\ LastsOf(Mme) = {"command", "trigger", "reply", "error"}
      /\ LastsOf(S11) = {"command", "trigger", "failure"}
      /\ \A g \in Forwards :
         /\ LastsOf(S5c(g)) = {"command", "trigger", "failure", "reply", "error"}
         /\ LastsOf(Smf(g)) = {"trigger", "failure"}
         /\ LastsOf(S11n(g)) = {"trigger"}
         /\ LastsOf(Mmen(g)) = {"trigger", "reply", "error"}
  BY Names, Fields DEF LastsOf
<1>3. /\ AsksOf(Mme) = {"command"} /\ AsksOf(S11) = {"trigger"}
      /\ \A g \in Forwards :
         /\ AsksOf(S5c(g)) = {"command"} /\ AsksOf(Smf(g)) = {"trigger"}
         /\ AsksOf(S11n(g)) = {"trigger"} /\ AsksOf(Mmen(g)) = {}
  BY Names, Fields DEF AsksOf
<1> QED BY <1>1, <1>2, <1>3

LEMMA LegNames == /\ S11 \in Legs /\ None \notin Legs
                  /\ \A g \in Forwards : S11n(g) \in Legs /\ S5c(g) \notin Legs
                  /\ \A l \in Legs : l = S11 \/ \E g \in Forwards : l = S11n(g)
                  /\ Legs \subseteq Xacts
  BY Names DEF Legs

\* Answers of MME and SGW-C are what they may send and have sent.
LEMMA AskedIsSaid ==
    ASSUME NEW x \in Xacts
    PROVE  /\ AsksOf(x) \subseteq SaysOf(x) /\ SaysOf(x) \subseteq LastsOf(x)
           /\ LastsOf(x) \subseteq Messages
  BY Kinds, Tables DEF Messages

-----------------------------------------------------------------------------
LEMMA Records ==
    /\ \A r \in Transaction : /\ r # NULL /\ r.last \in Messages /\ r.rcount \in 1 .. 3
                              /\ r.response \in Off .. T3 /\ r.holding \in Off .. Patience
    /\ \A m \in Messages, c \in 1 .. 3, p \in Off .. T3, h \in Off .. Patience :
         [last |-> m, rcount |-> c, response |-> p, holding |-> h] \in Transaction
<1>1. \A r \in Transaction : r # NULL
  BY GtpAssumption, Numbers DEF Transaction
<1> QED BY <1>1, Numbers DEF Transaction

LEMMA WaitingFine ==
    ASSUME NEW x \in Xacts, NEW m \in AsksOf(x), m \notin Answers, NEW h \in {Off, T3Holding},
           NEW acc, NEW und, NEW a \in 0 .. Patience
    PROVE  Waiting(m, h) \in Transaction /\ FineX(x, Waiting(m, h), acc, und, a)
<1> DEFINE r == Waiting(m, h)
<1>1. /\ r.last = m /\ r.rcount = 3 /\ r.response = T3 /\ r.holding = h
      /\ r \in Transaction /\ r # NULL
  BY Records, AskedIsSaid, Numbers DEF Waiting
<1>2. /\ r.last \in LastsOf(x) /\ r.last \in AsksOf(x) /\ r.last \notin Answers /\ r.last # "reply"
  BY <1>1, AskedIsSaid DEF Answers
<1>3. /\ Running(r.holding) => r.holding + a >= Patience
      /\ Running(r.response) => r.response + Left(r.rcount) + a >= Patience
  BY <1>1, Numbers DEF Running, Left
<1> QED BY ONLY <1>1, <1>2, <1>3 DEF FineX

LEMMA HeldFine ==
    ASSUME NEW x \in Xacts, NEW m \in LastsOf(x), NEW h \in {Off, T3Holding},
           NEW acc, NEW und, NEW a \in 0 .. Patience,
           ~acc => m # "reply", und => m \notin Answers
    PROVE  Held(m, h) \in Transaction /\ FineX(x, Held(m, h), acc, und, a)
<1> DEFINE r == Held(m, h)
<1>1. /\ r.last = m /\ r.rcount = 3 /\ r.response = Off /\ r.holding = h
      /\ r \in Transaction /\ r # NULL
  BY Records, AskedIsSaid, Numbers DEF Held
<1>2. /\ Running(r.holding) => r.holding + a >= Patience
      /\ ~Running(r.response)
  BY <1>1, Numbers DEF Running
<1> QED BY ONLY <1>1, <1>2, ~acc => m # "reply", und => m \notin Answers, m \in LastsOf(x) DEF FineX

\* The transaction of a command after the message m, its response timer stopped.
LEMMA StoppedFine ==
    ASSUME NEW x \in Xacts, NEW q \in Transaction, NEW m \in LastsOf(x),
           NEW acc, NEW und, NEW a \in 0 .. Patience, NEW h \in {q.holding, T3Holding},
           FineX(x, q, acc, und, a), x = S11 => m # "command",
           ~acc => m # "reply", und => m \notin Answers
    PROVE  LET r == [last |-> m, rcount |-> q.rcount, response |-> Off, holding |-> h]
           IN  r \in Transaction /\ FineX(x, r, acc, und, a)
<1> DEFINE r == [last |-> m, rcount |-> q.rcount, response |-> Off, holding |-> h]
<1>1. q.rcount \in 1 .. 3 /\ q.holding \in Off .. Patience /\ h \in Off .. Patience
  BY Records, Numbers
<1>2. /\ r.last = m /\ r.rcount = q.rcount /\ r.response = Off /\ r.holding = h
      /\ r \in Transaction /\ r # NULL
  BY <1>1, Records, AskedIsSaid, Numbers
<1>3. und => (Running(h) => h + a >= Patience)
  <2>1. CASE h = T3Holding  BY <2>1, Numbers
  <2>2. CASE h = q.holding  BY <2>2, Records DEF FineX
  <2> QED BY <2>1, <2>2
<1>4. ~Running(r.response)
  BY <1>2 DEF Running
<1> QED BY ONLY <1>2, <1>3, <1>4, ~acc => m # "reply", und => m \notin Answers,
             m \in LastsOf(x), x = S11 => m # "command" DEF FineX

\* What a transaction that does not change keeps.
LEMMA Kept ==
    ASSUME NEW x, NEW r, NEW acc, NEW und, NEW a, FineX(x, r, acc, und, a),
           NEW acc2, NEW und2, acc => acc2, und2 => und
    PROVE  FineX(x, r, acc2, und2, a)
  BY DEF FineX

LEMMA Step ==
    ASSUME IInv, age' = age, accepted => accepted', answered => answered',
           xact' \in [Xacts -> Transaction \cup {NULL}],
           \A x \in Xacts : xact'[x] = xact[x] \/ FineX(x, xact'[x], accepted', Und', age),
           \A d \in net' : d \in net \/ FineD(d, accepted', Und')
    PROVE  XactsFine' /\ NetFine'
<1>1. Und' => Und
  BY DEF Und
<1>2. ASSUME NEW x \in Xacts PROVE FineX(x, xact'[x], accepted', Und', age')
  <2>1. CASE xact'[x] = xact[x]
    <3>1. FineX(x, xact[x], accepted, Und, age)
      BY DEF IInv, XactsFine
    <3>2. FineX(x, xact[x], accepted', Und', age)
      BY <1>1, <3>1, Kept
    <3> QED BY <2>1, <3>2, age' = age
  <2> QED BY <2>1
<1>3. ASSUME NEW d \in net' PROVE FineD(d, accepted', Und')
  <2>1. CASE d \in net
    <3>1. FineD(d, accepted, Und)
      BY <2>1 DEF IInv, NetFine
    <3> QED BY <1>1, <3>1 DEF FineD
  <2> QED BY <2>1
<1> QED BY <1>2, <1>3 DEF XactsFine, NetFine

LEMMA SendFine ==
    ASSUME NEW x \in Xacts, NEW m \in SaysOf(x), net' = Send(net, x, m),
           ~accepted' => m # "reply", Und' => m \notin Answers
    PROVE  \A d \in net' : d \in net \/ FineD(d, accepted', Und')
<1> DEFINE sent == [from |-> x, msg |-> m, ttl |-> MaxDelay]
<1>1. sent \in [from : Xacts, msg : Messages, ttl : 0 .. MaxDelay]
      /\ sent.from = x /\ sent.msg = m
  BY AskedIsSaid, Numbers
<1>2. FineD(sent, accepted', Und')
  BY ONLY <1>1, m \in SaysOf(x), ~accepted' => m # "reply", Und' => m \notin Answers DEF FineD
<1>3. \A d \in net' : d \in net \/ d = sent
  BY DEF Send
<1> QED BY <1>2, <1>3

LEMMA NetKept ==
    ASSUME net' = net PROVE \A d \in net' : d \in net \/ FineD(d, accepted', Und')
  OBVIOUS

LEMMA OneChanged ==
    ASSUME XactsFine, NEW x \in Xacts, NEW r \in Transaction \cup {NULL},
           xact' = [xact EXCEPT ![x] = r], FineX(x, r, accepted', Und', age)
    PROVE  /\ xact' \in [Xacts -> Transaction \cup {NULL}]
           /\ \A y \in Xacts : xact'[y] = xact[y] \/ FineX(y, xact'[y], accepted', Und', age)
           /\ \A y \in Xacts : xact'[y] = IF y = x THEN r ELSE xact[y]
  BY DEF XactsFine

LEMMA NullFine ==
    ASSUME NEW x, NEW acc, NEW und, NEW a PROVE FineX(x, NULL, acc, und, a)
  BY DEF FineX

\* Deleted transactions leave nothing that is not fine.
LEMMA Fewer ==
    ASSUME XactsFine, NEW X,
           xact' = [x \in Xacts |-> IF x \in X THEN NULL ELSE xact[x]]
    PROVE  /\ xact' \in [Xacts -> Transaction \cup {NULL}]
           /\ \A y \in Xacts : xact'[y] = xact[y] \/ FineX(y, xact'[y], accepted', Und', age)
<1>1. ASSUME NEW y \in Xacts PROVE xact'[y] = xact[y] \/ FineX(y, xact'[y], accepted', Und', age)
  <2>1. CASE y \in X
    <3>1. xact'[y] = NULL
      BY <2>1
    <3> QED BY <3>1, NullFine
  <2> QED BY <2>1
<1> QED BY <1>1 DEF XactsFine

-----------------------------------------------------------------------------
\* Legs that stay and keep their steps stay linked.
LEMMA StillLinkedUp ==
    ASSUME Linked, assoc' = assoc, Und' => Und,
           \A g \in Forwards : \A y \in {S11, S5c(g), S11n(g)} :
               Live(y) => Live(y)' /\ xact'[y].last = xact[y].last,
           \A g \in Forwards : At(S5c(g), {"command"})' => At(S5c(g), {"command"})
    PROVE  Linked'
<1>1. ASSUME NEW g \in Forwards, assoc[g] # None
      PROVE  Live(S5c(g))' /\ Live(assoc[g])' /\ Live(S5c(g))
             /\ xact'[S5c(g)].last = xact[S5c(g)].last
  <2>1. Live(S5c(g)) /\ Live(assoc[g]) /\ (assoc[g] = S11 \/ assoc[g] = S11n(g))
    BY <1>1 DEF Linked, LegsAgree
  <2> QED BY <2>1
<1>2. ASSUME NEW g \in Forwards, assoc[g] = S11
      PROVE  /\ \/ xact'[S11].last = xact'[S5c(g)].last
                \/ At(S11, {"command"})' /\ At(S5c(g), {"error"})'
             /\ \A h \in Forwards : assoc[h] = S11 => h = g
  <2>1. Live(S5c(g)) /\ Live(S11)
    BY <1>2, Names DEF Linked, LegsAgree
  <2> QED BY <1>2, <2>1 DEF Linked, LegsAgree, At, Live
<1>3. ASSUME NEW g \in Forwards, assoc[g] # None, assoc[g] # S11
      PROVE  assoc[g] = S11n(g) /\ At(S11n(g), {"trigger"})' /\ At(S5c(g), {"trigger"})'
  BY <1>3 DEF Linked, LegsAgree, At
<1>4. LegsAgree'
  BY <1>1, <1>2, <1>3 DEF LegsAgree
<1>5. Und' => \A g \in Forwards : At(S5c(g), {"command"})' => assoc'[g] = S11
  BY DEF Linked
<1> QED BY <1>4, <1>5 DEF Linked

\* The legs that deleted transactions leave.
LEMMA Untied ==
    ASSUME XactsFine, Linked, NEW X, assoc' = Unlinked(X),
           xact' = [x \in Xacts |-> IF x \in X THEN NULL ELSE xact[x]],
           Und' => Und, Und' => S11 \notin X
    PROVE  Linked'
<1>1. \A x \in Xacts : /\ x \in X => xact'[x] = NULL
                       /\ x \notin X => xact'[x] = xact[x]
  OBVIOUS
<1>2. /\ assoc' \in [Forwards -> Legs \cup {None}]
      /\ \A g \in Forwards : assoc'[g] # None =>
            assoc'[g] = assoc[g] /\ S5c(g) \notin X /\ assoc[g] \notin X
      /\ \A g \in Forwards : assoc[g] = assoc'[g] \/ S5c(g) \in X \/ assoc[g] \in X
  BY DEF Unlinked, Linked
<1>3. ASSUME NEW g \in Forwards, assoc'[g] # None
      PROVE  /\ Live(S5c(g)) /\ Live(assoc[g]) /\ assoc'[g] = assoc[g]
             /\ xact'[S5c(g)] = xact[S5c(g)] /\ xact'[assoc[g]] = xact[assoc[g]]
             /\ assoc[g] = S11 \/ assoc[g] = S11n(g)
  <2>1. Live(S5c(g)) /\ Live(assoc[g]) /\ (assoc[g] = S11 \/ assoc[g] = S11n(g))
    BY <1>2, <1>3 DEF Linked, LegsAgree
  <2> QED BY <1>1, <1>2, <1>3, <2>1, Names
<1>4. LegsAgree'
  <2> SUFFICES ASSUME NEW g \in Forwards, assoc'[g] # None
      PROVE  /\ Live(S5c(g))' /\ Live(assoc[g])'
             /\ assoc'[g] = S11 =>
                  /\ \/ xact'[S11].last = xact'[S5c(g)].last
                     \/ At(S11, {"command"})' /\ At(S5c(g), {"error"})'
                  /\ \A h \in Forwards : assoc'[h] = S11 => h = g
             /\ assoc'[g] # S11 =>
                  assoc'[g] = S11n(g) /\ At(S11n(g), {"trigger"})' /\ At(S5c(g), {"trigger"})'
    BY <1>3, Names DEF LegsAgree
  <2>1. Live(S5c(g))' /\ Live(assoc[g])'
    BY <1>3 DEF Live
  <2>2. ASSUME assoc'[g] = S11
        PROVE  /\ \/ xact'[S11].last = xact'[S5c(g)].last
                  \/ At(S11, {"command"})' /\ At(S5c(g), {"error"})'
               /\ \A h \in Forwards : assoc'[h] = S11 => h = g
    BY <1>3, <2>2, Names DEF Linked, LegsAgree, At, Live
  <2>3. ASSUME assoc'[g] # S11
        PROVE  assoc'[g] = S11n(g) /\ At(S11n(g), {"trigger"})' /\ At(S5c(g), {"trigger"})'
    BY <1>3, <2>3 DEF Linked, LegsAgree, At, Live
  <2> QED BY <2>1, <2>2, <2>3
<1>5. ASSUME Und', NEW g \in Forwards, At(S5c(g), {"command"})' PROVE assoc'[g] = S11
  <2>1. S5c(g) \notin X /\ At(S5c(g), {"command"}) /\ S11 \notin X
    BY <1>1, <1>5, Names DEF At, Live
  <2> QED BY <1>2, <1>5, <2>1 DEF Linked
<1> QED BY <1>2, <1>4, <1>5 DEF Linked

\* Timers end late.
LEMMA EndsLate ==
    ASSUME IInv, NEW x \in Xacts, Live(x),
           Expired(xact[x].holding) \/ (Expired(xact[x].response) /\ xact[x].rcount = 1)
    PROVE  ~Und
<1> SUFFICES ASSUME Und PROVE FALSE
  OBVIOUS
<1> DEFINE r == xact[x]
<1>1. FineX(x, r, accepted, Und, age) /\ r # NULL /\ age \in 0 .. Patience /\ age # Patience
  BY DEF IInv, XactsFine, Rest, Und, Live
<1>2. /\ Running(r.holding) => r.holding + age >= Patience
      /\ Running(r.response) => r.response + Left(r.rcount) + age >= Patience
      /\ r \in Transaction
  BY <1>1 DEF FineX
<1>3. r.holding \in Int /\ r.response \in Int
  BY <1>2, Records, Numbers
<1> QED BY <1>1, <1>2, <1>3, Numbers DEF Expired, Left

-----------------------------------------------------------------------------
\* Whatever acts, the command was sent.
LEMMA Started ==
    ASSUME IInv, (\E x \in Xacts : Live(x)) \/ net # {}
    PROVE  outcome # "idle"
  BY DEF IInv, Rest, Live

LEMMA RestKept ==
    ASSUME IInv, outcome # "idle", outcome' \in {"pending", "timeout", "refused"},
           forwards' = forwards, age' = age, answered' \in BOOLEAN, answered => answered',
           update' \in {x \in Xacts : DaemonOf(x) = "mme"} \cup {None},
           asked' \in 0 .. (MaxForwards + 1), asked' > 0 => update' # None,
           accepted' \in BOOLEAN, modified' \in BOOLEAN, accepted => accepted',
           modified' => modified \/ accepted',
           down' \subseteq Daemons, Und' => down' = down,
           Und' => (Live(S11) => Live(S11)')
    PROVE  Rest'
<1>1. Und' => Und
  BY DEF Und
<1>2. ~accepted' => ~modified'
  BY DEF IInv, Rest
<1>3. Und' => down' = {} /\ forwards' <= 1 /\ (forwards' = 1 => Live(S11)')
  BY <1>1 DEF IInv, Rest
<1>4. age' \in 0 .. Patience /\ forwards' \in 0 .. MaxForwards /\ outcome' # "idle"
  BY DEF IInv, Rest
<1> QED BY <1>2, <1>3, <1>4 DEF Rest

\* What is left as it is.
LEMMA RestSame ==
    ASSUME IInv, outcome # "idle", outcome' \in {"pending", "timeout", "refused"},
           UNCHANGED <<forwards, age, nas, modified, down>>,
           answered' \in BOOLEAN, answered => answered',
           Und' => (Live(S11) => Live(S11)')
    PROVE  Rest'
<1>1. /\ update' \in {x \in Xacts : DaemonOf(x) = "mme"} \cup {None}
      /\ asked' \in 0 .. (MaxForwards + 1) /\ (asked' > 0 => update' # None)
      /\ down' \subseteq Daemons
  BY DEF IInv, Rest, nas
<1>2. /\ accepted' \in BOOLEAN /\ modified' \in BOOLEAN /\ (accepted => accepted')
      /\ (modified' => modified)
  BY DEF IInv, Rest, nas
<1> QED BY <1>1, <1>2, RestKept

LEMMA Answer ==
    ASSUME IInv, outcome # "idle" PROVE outcome \in {"pending", "timeout", "refused"}
  BY DEF IInv, Rest

\* One transaction is made or changed; no leg is, except in its timers, or S11
\* that nothing is linked to.
LEMMA OneKept ==
    ASSUME IInv, NEW x \in Xacts, xact' \in [Xacts -> Transaction \cup {NULL}],
           \A y \in Xacts : y # x => xact'[y] = xact[y],
           xact'[x] \in Transaction, FineX(x, xact'[x], accepted', Und', age),
           assoc' = assoc, age' = age, accepted => accepted', answered => answered',
           \/ DaemonOf(x) # "sgwc"
           \/ Live(x) /\ xact'[x].last = xact[x].last
           \/ ~Live(x) /\ x = S11,
           \A d \in net' : d \in net \/ FineD(d, accepted', Und')
    PROVE  XactsFine' /\ NetFine' /\ Linked' /\ (Live(S11) => Live(S11)')
<1> DEFINE r == xact'[x]
<1>1. /\ \A y \in Xacts : xact'[y] = xact[y] \/ FineX(y, xact'[y], accepted', Und', age)
      /\ \A y \in Xacts : xact'[y] = IF y = x THEN r ELSE xact[y]
  OBVIOUS
<1>2. XactsFine' /\ NetFine'
  BY <1>1, Step
<1>3. r # NULL
  BY Records
<1>4. ASSUME NEW y \in Xacts, DaemonOf(y) = "sgwc"
      PROVE  /\ Live(y) => Live(y)' /\ xact'[y].last = xact[y].last
             /\ y # S11 => (At(y, {"command"})' => At(y, {"command"}))
  <2>1. CASE y = x
    <3>1. xact'[y] = r
      BY <1>1, <2>1
    <3> QED BY <1>3, <1>4, <2>1, <3>1 DEF Live, At
  <2>2. CASE y # x
    <3>1. xact'[y] = xact[y]
      BY <1>1, <2>2
    <3> QED BY <3>1 DEF Live, At
  <2> QED BY <2>1, <2>2
<1>5. Und' => Und
  BY DEF Und
<1>6. Linked'
  <2>1. \A g \in Forwards : \A y \in {S11, S5c(g), S11n(g)} :
            Live(y) => Live(y)' /\ xact'[y].last = xact[y].last
    BY <1>4, Names, Homes
  <2>2. \A g \in Forwards : At(S5c(g), {"command"})' => At(S5c(g), {"command"})
    BY <1>4, Names, Homes
  <2> QED BY <1>5, <2>1, <2>2, StillLinkedUp DEF IInv
<1> QED BY <1>2, <1>4, <1>6, Names, Homes

\* Transactions are deleted, in time only if they are not S11.
LEMMA Gone ==
    ASSUME IInv, NEW X, xact' = [x \in Xacts |-> IF x \in X THEN NULL ELSE xact[x]],
           assoc' = Unlinked(X), net' = net, age' = age,
           accepted => accepted', answered => answered', Und' => S11 \notin X
    PROVE  XactsFine' /\ NetFine' /\ Linked' /\ (Und' => (Live(S11) => Live(S11)'))
<1>1. /\ xact' \in [Xacts -> Transaction \cup {NULL}]
      /\ \A y \in Xacts : xact'[y] = xact[y] \/ FineX(y, xact'[y], accepted', Und', age)
  BY Fewer DEF IInv
<1>2. XactsFine' /\ NetFine'
  BY <1>1, Step, NetKept
<1>3. Und' => Und
  BY DEF Und
<1>4. Linked'
  BY <1>3, Untied DEF IInv
<1>5. Und' => (Live(S11) => Live(S11)')
  BY Names DEF Live
<1> QED BY <1>2, <1>4, <1>5

LEMMA DeleteGone ==
    ASSUME IInv, NEW x \in Xacts, Delete(x), net' = net, age' = age,
           accepted => accepted', answered => answered', Und' => x # S11
    PROVE  XactsFine' /\ NetFine' /\ Linked' /\ (Und' => (Live(S11) => Live(S11)'))
<1>1. xact' = [y \in Xacts |-> IF y \in {x} THEN NULL ELSE xact[y]]
  BY DEF Delete, IInv, XactsFine
<1> QED BY <1>1, Gone DEF Delete

\* An assertion fails late.
LEMMA AbortLate ==
    ASSUME IInv, NEW d \in Daemons, Abort(d), ~Und', UNCHANGED <<forwards, net, outcome, age>>,
           outcome # "idle", answered' \in BOOLEAN, answered => answered',
           update' \in {x \in Xacts : DaemonOf(x) = "mme"} \cup {None},
           asked' \in 0 .. (MaxForwards + 1), asked' > 0 => update' # None,
           accepted' \in BOOLEAN, modified' \in BOOLEAN, accepted => accepted',
           modified' => modified
    PROVE  IInv'
<1>1. XactsFine' /\ NetFine' /\ Linked'
  <2> DEFINE X == {x \in Xacts : DaemonOf(x) = d}
  <2>1. xact' = [x \in Xacts |-> IF x \in X THEN NULL ELSE xact[x]] /\ assoc' = Unlinked(X)
    BY DEF Abort
  <2> QED BY <2>1, Gone
<1>2. down' \subseteq Daemons
  BY DEF Abort, IInv, Rest
<1>3. Rest'
  BY <1>2, Answer, RestKept
<1> QED BY <1>1, <1>3 DEF IInv

LEMMA AbortSame ==
    ASSUME IInv, NEW d \in Daemons, Abort(d), ~Und, outcome # "idle",
           UNCHANGED <<answered, forwards, net, outcome, nas, modified, age>>
    PROVE  IInv'
<1>1. /\ update' \in {x \in Xacts : DaemonOf(x) = "mme"} \cup {None}
      /\ asked' \in 0 .. (MaxForwards + 1) /\ (asked' > 0 => update' # None)
  BY DEF IInv, Rest, nas
<1>2. /\ accepted' \in BOOLEAN /\ modified' \in BOOLEAN /\ (accepted => accepted')
      /\ (modified' => modified) /\ answered' \in BOOLEAN /\ (answered => answered') /\ ~Und'
  BY DEF IInv, Rest, nas, Und
<1> QED BY <1>1, <1>2, AbortLate

-----------------------------------------------------------------------------
LEMMA SendCommandStep == ASSUME IInv, SendCommand PROVE IInv'
<1>1. /\ outcome = "idle" /\ outcome' = "pending" /\ assoc' = assoc /\ age' = age
      /\ xact' = [xact EXCEPT ![Mme] = Waiting("command", Off)]
      /\ net' = Send(net, Mme, "command")
      /\ UNCHANGED <<answered, forwards, nas, modified, down>>
  BY DEF SendCommand
<1>2. (accepted => accepted') /\ (answered => answered')
  BY <1>1 DEF nas
<1>3. age \in 0 .. Patience
  BY DEF IInv, Rest
<1>4. /\ xact' \in [Xacts -> Transaction \cup {NULL}]
      /\ \A y \in Xacts : y # Mme => xact'[y] = xact[y]
      /\ xact'[Mme] \in Transaction /\ FineX(Mme, xact'[Mme], accepted', Und', age)
  <2>1. Waiting("command", Off) \in Transaction
        /\ FineX(Mme, Waiting("command", Off), accepted', Und', age)
    BY <1>3, WaitingFine, Names, Tables DEF Answers
  <2> QED BY <1>1, <2>1, Names DEF IInv, XactsFine
<1>5. \A d \in net' : d \in net \/ FineD(d, accepted', Und')
  BY <1>1, SendFine, Names, Tables DEF Answers
<1>6. XactsFine' /\ NetFine' /\ Linked' /\ (Live(S11) => Live(S11)')
  BY <1>1, <1>2, <1>4, <1>5, OneKept, Names, Homes
<1>7. Rest'
  <2>1. /\ update' = update /\ asked' = asked /\ accepted' = accepted /\ modified' = modified
        /\ down' = down /\ forwards' = forwards /\ Und' = Und
    BY <1>1 DEF nas, Und
  <2>2. Und' => down' = {} /\ forwards' <= 1 /\ (forwards' = 1 => Live(S11)')
    BY <1>6, <2>1 DEF IInv, Rest
  <2>3. /\ ~accepted' => ~modified'
        /\ accepted' \in BOOLEAN /\ modified' \in BOOLEAN /\ answered' \in BOOLEAN
    BY <1>1 DEF IInv, Rest, nas
  <2> QED BY <1>1, <2>1, <2>2, <2>3 DEF IInv, Rest
<1> QED BY <1>6, <1>7 DEF IInv

LEMMA RetransmitStep ==
    ASSUME IInv, NEW x \in Xacts, Live(x), Retransmit(x) PROVE IInv'
<1> DEFINE q == xact[x]
           r == xact'[x]
<1>1. /\ Expired(q.response) /\ q.rcount > 1 /\ assoc' = assoc /\ age' = age
      /\ net' = Send(net, x, q.last)
      /\ UNCHANGED <<answered, forwards, outcome, nas, modified, down>>
  BY DEF Retransmit
<1>2. /\ q \in Transaction /\ FineX(x, q, accepted, Und, age) /\ age \in 0 .. Patience /\ q # NULL
      /\ xact \in [Xacts -> Transaction \cup {NULL}]
  BY Records DEF IInv, XactsFine, Rest, Live
<1>3. /\ (accepted' <=> accepted) /\ (answered' <=> answered) /\ (Und' <=> Und)
      /\ (accepted => accepted') /\ (answered => answered')
  BY <1>1 DEF nas, Und
<1>4. /\ q.last \in Messages /\ q.rcount \in 1 .. 3 /\ q.response \in Int
      /\ q.holding \in Off .. Patience
  BY <1>2, Records, Numbers
<1>5. /\ r = [last |-> q.last, rcount |-> q.rcount - 1, response |-> T3, holding |-> q.holding]
      /\ \A y \in Xacts : y # x => xact'[y] = xact[y]
      /\ DOMAIN xact' = Xacts /\ xact' = [y \in Xacts |-> xact'[y]]
  BY <1>2 DEF Retransmit, Transaction
<1>6. /\ r \in Transaction /\ r.last = q.last /\ r.rcount = q.rcount - 1 /\ r.response = T3
      /\ r.holding = q.holding /\ r # NULL
  BY <1>1, <1>4, <1>5, Records, Numbers
<1>7. q.last \in AsksOf(x) /\ Running(q.response)
  BY <1>1, <1>2 DEF FineX, Expired
<1>8. ~(x = S11 /\ q.last = "command")
  BY <1>7, Tables
<1>9. Und => r.response + Left(r.rcount) + age >= Patience
  <2>1. q.response <= 0
    BY <1>1 DEF Expired
  <2>2. Und => q.response + Left(q.rcount) + age >= Patience
    BY <1>2, <1>7 DEF FineX
  <2> QED BY <1>1, <1>2, <1>4, <1>6, <2>1, <2>2, Numbers DEF Left
<1>10. FineX(x, r, accepted', Und', age)
  <2>1. /\ ~accepted => q.last # "reply"
        /\ Und => q.last \notin Answers /\ (Running(q.holding) => q.holding + age >= Patience)
        /\ q.last \in LastsOf(x)
    BY <1>2 DEF FineX
  <2> QED BY ONLY <1>3, <1>6, <1>7, <1>8, <1>9, <2>1 DEF FineX
<1>11. \A d \in net' : d \in net \/ FineD(d, accepted', Und')
  <2>1. (~accepted' => q.last # "reply") /\ (Und' => q.last \notin Answers)
    BY <1>2, <1>3 DEF FineX
  <2>2. q.last \in SaysOf(x)
    BY <1>7, AskedIsSaid
  <2> QED BY <1>1, <2>1, <2>2, SendFine
<1>12. xact' \in [Xacts -> Transaction \cup {NULL}]
  BY <1>2, <1>5, <1>6
<1>13. XactsFine' /\ NetFine' /\ Linked' /\ (Live(S11) => Live(S11)')
  BY <1>1, <1>3, <1>5, <1>6, <1>10, <1>11, <1>12, OneKept
<1>14. outcome # "idle"
  BY Started
<1>15. answered' \in BOOLEAN
  BY <1>1 DEF IInv, Rest
<1>16. Rest'
  BY <1>1, <1>3, <1>13, <1>14, <1>15, RestSame, Answer
<1> QED BY <1>13, <1>16 DEF IInv

LEMMA TimeoutStep ==
    ASSUME IInv, NEW x \in Xacts, Live(x), GiveUp(x) \/ HoldingTimeout(x) PROVE IInv'
<1>1. /\ Delete(x) /\ net' = net /\ age' = age
      /\ UNCHANGED <<answered, forwards, nas, modified, down>>
      /\ outcome' \in {outcome, "timeout"}
  BY DEF GiveUp, HoldingTimeout
<1>2. ~Und
  BY EndsLate DEF GiveUp, HoldingTimeout, Alone
<1>3. /\ (accepted => accepted') /\ (answered => answered') /\ ~Und' /\ answered' \in BOOLEAN
  BY <1>1, <1>2 DEF nas, Und, IInv, Rest
<1>4. XactsFine' /\ NetFine' /\ Linked' /\ (Und' => (Live(S11) => Live(S11)'))
  BY <1>1, <1>3, DeleteGone
<1>5. outcome # "idle" /\ outcome' \in {"pending", "timeout", "refused"}
  BY <1>1, Started, Answer
<1>6. Rest'
  BY <1>1, <1>3, <1>4, <1>5, RestSame
<1> QED BY <1>4, <1>6 DEF IInv

LEMMA StaleTimerStep ==
    ASSUME IInv, NEW x \in Xacts, Live(x), StaleTimer(x) PROVE IInv'
<1>1. ~Und
  BY EndsLate DEF StaleTimer
<1>2. outcome # "idle"
  BY Started
<1>3. DaemonOf(x) \in Daemons
  BY Kinds, Homes DEF Daemons
<1> QED BY <1>1, <1>2, <1>3, AbortSame DEF StaleTimer

LEMMA DuplicateStep ==
    ASSUME IInv, NEW x \in Xacts, NEW answers, Duplicate(x, answers), xact[x].last \in SaysOf(x),
           x = S11 => xact[x].last # "command"
    PROVE  IInv'
<1> DEFINE q == xact[x]
           r == xact'[x]
<1>1. /\ Live(x) /\ assoc' = assoc /\ age' = age
      /\ net' = Send(net, x, q.last)
      /\ UNCHANGED <<answered, forwards, outcome, nas, modified, down>>
  BY DEF Duplicate, At
<1>2. /\ q \in Transaction /\ FineX(x, q, accepted, Und, age) /\ age \in 0 .. Patience /\ q # NULL
      /\ xact \in [Xacts -> Transaction \cup {NULL}]
  BY <1>1, Records DEF IInv, XactsFine, Rest, Live
<1>3. /\ (accepted' <=> accepted) /\ (answered' <=> answered) /\ (Und' <=> Und)
      /\ (accepted => accepted') /\ (answered => answered')
  BY <1>1 DEF nas, Und
<1>4. /\ q.last \in Messages /\ q.rcount \in 1 .. 3 /\ q.response \in Off .. T3
  BY <1>2, Records, Numbers
<1>5. /\ r = [last |-> q.last, rcount |-> q.rcount, response |-> q.response,
              holding |-> T3Holding]
      /\ \A y \in Xacts : y # x => xact'[y] = xact[y]
      /\ DOMAIN xact' = Xacts /\ xact' = [y \in Xacts |-> xact'[y]]
  BY <1>2 DEF Duplicate, Transaction
<1>6. /\ r \in Transaction /\ r.last = q.last /\ r.rcount = q.rcount /\ r.response = q.response
      /\ r.holding = T3Holding /\ r # NULL
  BY <1>4, <1>5, Records, Numbers
<1>7. r.holding + age >= Patience
  BY <1>2, <1>6, Numbers
<1>8. /\ FineX(x, r, accepted', Und', age)
      /\ (~accepted' => q.last # "reply") /\ (Und' => q.last \notin Answers)
  <2>1. /\ ~accepted => q.last # "reply"
        /\ Running(q.response) => q.last \in AsksOf(x)
        /\ Und => q.last \notin Answers
                  /\ (Running(q.response) => q.response + Left(q.rcount) + age >= Patience)
        /\ q.last \in LastsOf(x)
    BY <1>2 DEF FineX
  <2> QED BY ONLY <1>3, <1>6, <1>7, <2>1, x = S11 => q.last # "command" DEF FineX
<1>9. \A d \in net' : d \in net \/ FineD(d, accepted', Und')
  BY <1>1, <1>8, SendFine
<1>10. xact' \in [Xacts -> Transaction \cup {NULL}]
  BY <1>2, <1>5, <1>6
<1>11. XactsFine' /\ NetFine' /\ Linked' /\ (Live(S11) => Live(S11)')
  BY <1>1, <1>3, <1>5, <1>6, <1>8, <1>9, <1>10, OneKept
<1>12. outcome # "idle"
  BY <1>1, Started
<1>13. answered' \in BOOLEAN
  BY <1>1 DEF IInv, Rest
<1>14. Rest'
  BY <1>1, <1>3, <1>11, <1>12, <1>13, RestSame, Answer
<1> QED BY <1>11, <1>14 DEF IInv

LEMMA StrayStep ==
    ASSUME IInv, NEW x \in Xacts, Stray(x), Und => x # S11 PROVE IInv'
<1>1. /\ Live(x) /\ Delete(x) /\ net' = net /\ age' = age
      /\ UNCHANGED <<answered, forwards, outcome, nas, modified, down>>
  BY DEF Stray
<1>2. /\ (accepted => accepted') /\ (answered => answered') /\ (Und' => x # S11)
      /\ answered' \in BOOLEAN
  BY <1>1 DEF nas, Und, IInv, Rest
<1>3. XactsFine' /\ NetFine' /\ Linked' /\ (Und' => (Live(S11) => Live(S11)'))
  BY <1>1, <1>2, DeleteGone
<1>4. outcome # "idle" /\ outcome' \in {"pending", "timeout", "refused"}
  BY <1>1, Started, Answer
<1>5. Rest'
  BY <1>1, <1>2, <1>3, <1>4, RestSame
<1> QED BY <1>3, <1>5 DEF IInv

\* A transaction is made, or goes on, that holds or asks m.
LEMMA NewXact ==
    ASSUME IInv, NEW x \in Xacts, NEW r \in Transaction, xact' = [xact EXCEPT ![x] = r],
           FineX(x, r, accepted', Und', age), NEW m \in SaysOf(x), net' = Send(net, x, m),
           m # "reply", Und' => m \notin Answers,
           DaemonOf(x) # "sgwc" \/ (~Live(x) /\ x = S11), net # {},
           answered' \in BOOLEAN, answered => answered',
           UNCHANGED <<assoc, forwards, outcome, nas, modified, down, age>>
    PROVE  IInv'
<1>1. /\ xact' \in [Xacts -> Transaction \cup {NULL}] /\ xact'[x] = r
      /\ \A y \in Xacts : y # x => xact'[y] = xact[y]
  BY DEF IInv, XactsFine
<1>2. accepted => accepted'
  BY DEF nas
<1>3. \A d \in net' : d \in net \/ FineD(d, accepted', Und')
  BY SendFine
<1>4. XactsFine' /\ NetFine' /\ Linked' /\ (Live(S11) => Live(S11)')
  BY <1>1, <1>2, <1>3, OneKept
<1>5. outcome # "idle" /\ outcome' \in {"pending", "timeout", "refused"}
  BY Started, Answer
<1>6. Rest'
  BY <1>4, <1>5, RestSame
<1> QED BY <1>4, <1>6 DEF IInv

LEMMA RefuseCommandStep ==
    ASSUME IInv, NEW x \in Xacts, RefuseCommand(x), net # {},
           x = S11 \/ \E g \in Forwards : x = Smf(g)
    PROVE  IInv'
<1>1. /\ "failure" \in SaysOf(x) /\ "failure" \in LastsOf(x)
      /\ DaemonOf(x) # "sgwc" \/ x = S11
  BY Tables, Homes
<1>2. /\ age \in 0 .. Patience /\ answered' \in BOOLEAN /\ (answered => answered')
  BY DEF IInv, Rest, RefuseCommand
<1>3. /\ Held("failure", T3Holding) \in Transaction
      /\ FineX(x, Held("failure", T3Holding), accepted', Und', age)
  BY <1>1, <1>2, HeldFine DEF Answers
<1>4. /\ ~Live(x) /\ xact' = [xact EXCEPT ![x] = Held("failure", T3Holding)]
      /\ net' = Send(net, x, "failure")
      /\ UNCHANGED <<assoc, forwards, outcome, nas, modified, down, age>>
  BY DEF RefuseCommand
<1> QED BY <1>1, <1>2, <1>3, <1>4, NewXact DEF Answers

LEMMA ExecuteCommandStep ==
    ASSUME IInv, NEW g \in Forwards, ExecuteCommand(Smf(g)), net # {}
    PROVE  IInv'
<1>1. /\ "trigger" \in SaysOf(Smf(g)) /\ "trigger" \in AsksOf(Smf(g)) /\ Smf(g) \in Xacts
      /\ DaemonOf(Smf(g)) # "sgwc"
  BY Names, Tables, Homes
<1>2. /\ age \in 0 .. Patience /\ answered' \in BOOLEAN /\ (answered => answered')
  BY DEF IInv, Rest, ExecuteCommand
<1>3. /\ Waiting("trigger", T3Holding) \in Transaction
      /\ FineX(Smf(g), Waiting("trigger", T3Holding), accepted', Und', age)
  BY <1>1, <1>2, WaitingFine DEF Answers
<1>4. /\ xact' = [xact EXCEPT ![Smf(g)] = Waiting("trigger", T3Holding)]
      /\ net' = Send(net, Smf(g), "trigger")
      /\ UNCHANGED <<assoc, forwards, outcome, nas, modified, down, age>>
  BY DEF ExecuteCommand
<1> QED BY <1>1, <1>2, <1>3, <1>4, NewXact DEF Answers

-----------------------------------------------------------------------------
LEMMA ForwardCommandStep ==
    ASSUME IInv, ForwardCommand, net # {}, NEW g, g = forwards + 1
    PROVE  IInv'
<1>1. /\ ~Live(S11) /\ forwards < MaxForwards /\ forwards' = g
      /\ xact' = [xact EXCEPT ![S11] = Held("command", T3Holding),
                              ![S5c(g)] = Waiting("command", Off)]
      /\ assoc' = [assoc EXCEPT ![g] = S11]
      /\ net' = Send(net, S5c(g), "command")
      /\ UNCHANGED <<answered, outcome, nas, modified, down, age>>
  BY DEF ForwardCommand
<1>2. /\ age \in 0 .. Patience /\ (accepted => accepted') /\ (answered => answered')
      /\ (Und' <=> Und) /\ answered' \in BOOLEAN
  BY <1>1 DEF IInv, Rest, nas, Und
<1>3. g \in Forwards /\ forwards \in 0 .. MaxForwards
  BY <1>1, Numbers DEF IInv, Rest, Forwards
<1>4. /\ S11 \in Xacts /\ S5c(g) \in Xacts /\ S5c(g) # S11
      /\ "command" \in LastsOf(S11) /\ "command" \in AsksOf(S5c(g))
      /\ "command" \in SaysOf(S5c(g))
  BY <1>3, Names, Tables
<1>5. /\ Held("command", T3Holding) \in Transaction
      /\ FineX(S11, Held("command", T3Holding), accepted', Und', age)
  BY <1>2, <1>4, HeldFine DEF Answers
<1>6. /\ Waiting("command", Off) \in Transaction
      /\ FineX(S5c(g), Waiting("command", Off), accepted', Und', age)
  BY <1>2, <1>4, WaitingFine DEF Answers
<1>7. /\ xact' \in [Xacts -> Transaction \cup {NULL}]
      /\ xact'[S11] = Held("command", T3Holding) /\ xact'[S5c(g)] = Waiting("command", Off)
      /\ \A y \in Xacts : y # S11 /\ y # S5c(g) => xact'[y] = xact[y]
  BY <1>1, <1>4, <1>5, <1>6 DEF IInv, XactsFine
<1>8. \A y \in Xacts : xact'[y] = xact[y] \/ FineX(y, xact'[y], accepted', Und', age)
  BY <1>5, <1>6, <1>7
<1>9. \A d \in net' : d \in net \/ FineD(d, accepted', Und')
  BY <1>1, <1>4, SendFine DEF Answers
<1>10. XactsFine' /\ NetFine'
  BY <1>1, <1>2, <1>7, <1>8, <1>9, Step
<1>11. /\ Live(S11)' /\ Live(S5c(g))' /\ xact'[S11].last = "command"
       /\ xact'[S5c(g)].last = "command"
  <2>1. Held("command", T3Holding).last = "command" /\ Waiting("command", Off).last = "command"
    BY DEF Held, Waiting
  <2>2. Held("command", T3Holding) # NULL /\ Waiting("command", Off) # NULL
    BY <1>5, <1>6, Records
  <2> QED BY ONLY <1>7, <2>1, <2>2 DEF Live
<1>12. /\ assoc' \in [Forwards -> Legs \cup {None}] /\ assoc'[g] = S11
       /\ \A h \in Forwards : h # g => assoc'[h] = assoc[h] /\ assoc[h] # S11
  <2>1. \A h \in Forwards : assoc[h] # S11
    BY <1>1, Names DEF IInv, Linked, LegsAgree
  <2> QED BY <1>1, <1>3, <2>1, LegNames DEF IInv, Linked
<1>13. LegsAgree'
  <2>1. ASSUME NEW h \in Forwards, h # g, assoc'[h] # None
        PROVE  /\ Live(S5c(h))' /\ Live(assoc[h])' /\ assoc'[h] # S11
               /\ assoc'[h] = S11n(h) /\ At(S11n(h), {"trigger"})' /\ At(S5c(h), {"trigger"})'
    <3>1. /\ assoc[h] = S11n(h) /\ At(S11n(h), {"trigger"}) /\ At(S5c(h), {"trigger"})
      BY <1>12, <2>1 DEF IInv, Linked, LegsAgree
    <3>2. xact'[S11n(h)] = xact[S11n(h)] /\ xact'[S5c(h)] = xact[S5c(h)]
      BY <1>3, <1>7, <2>1, Names
    <3>3. /\ Live(S11n(h))' /\ At(S11n(h), {"trigger"})'
          /\ Live(S5c(h))' /\ At(S5c(h), {"trigger"})'
      BY <3>1, <3>2 DEF At, Live
    <3> QED BY <1>12, <2>1, <3>1, <3>3
  <2> QED BY <1>3, <1>11, <1>12, <2>1, Names DEF LegsAgree
<1>14. Und' => \A h \in Forwards : At(S5c(h), {"command"})' => assoc'[h] = S11
  <2> SUFFICES ASSUME Und, NEW h \in Forwards, h # g, At(S5c(h), {"command"})'
      PROVE  FALSE
    BY <1>2, <1>12
  <2>1. xact'[S5c(h)] = xact[S5c(h)]
    BY <1>3, <1>7, Names
  <2>2. At(S5c(h), {"command"})
    BY <2>1 DEF At, Live
  <2> QED BY <1>12, <2>2 DEF IInv, Linked
<1>15. Rest'
  <2>1. outcome' # "idle" /\ outcome' \in {"idle", "pending", "timeout", "refused"}
    BY <1>1, Started DEF IInv, Rest
  <2>2. forwards' \in 0 .. MaxForwards
    BY <1>1, <1>3, Numbers
  <2>3. Und' => down' = {} /\ forwards' <= 1 /\ Live(S11)'
    <3>1. Und => down = {} /\ forwards <= 1 /\ (forwards = 1 => Live(S11))
      BY DEF IInv, Rest
    <3>2. Und => down = {} /\ forwards = 0
      BY <1>1, <1>3, <3>1
    <3>3. Und => forwards' <= 1
      BY <1>1, <3>2
    <3> QED BY <1>1, <1>2, <1>11, <3>2, <3>3
  <2>4. /\ update' \in {x \in Xacts : DaemonOf(x) = "mme"} \cup {None}
        /\ asked' \in 0 .. (MaxForwards + 1) /\ (asked' > 0 => update' # None)
        /\ down' \subseteq Daemons /\ age' \in 0 .. Patience
    BY <1>1 DEF IInv, Rest, nas
  <2>5. accepted' \in BOOLEAN /\ modified' \in BOOLEAN /\ (~accepted' => ~modified')
    BY <1>1 DEF IInv, Rest, nas
  <2> QED BY ONLY <1>2, <2>1, <2>2, <2>3, <2>4, <2>5 DEF Rest
<1> QED BY <1>10, <1>12, <1>13, <1>14, <1>15 DEF IInv, Linked

\* What S5c(g) is when the SMF answers its command.
LEMMA Commanding ==
    ASSUME IInv, NEW g \in Forwards, At(S5c(g), {"command"})
    PROVE  /\ S5c(g) \in Xacts /\ xact[S5c(g)] \in Transaction /\ xact[S5c(g)].last = "command"
           /\ FineX(S5c(g), xact[S5c(g)], accepted, Und, age) /\ age \in 0 .. Patience
           /\ xact \in [Xacts -> Transaction \cup {NULL}]
           /\ assoc[g] = S11 \/ (assoc[g] = None /\ ~Und)
           /\ assoc[g] = S11 =>
                /\ Live(S11) /\ xact[S11] \in Transaction /\ xact[S11].last = "command"
                /\ FineX(S11, xact[S11], accepted, Und, age)
                /\ \A h \in Forwards : assoc[h] = S11 => h = g
<1>1. /\ S5c(g) \in Xacts /\ xact[S5c(g)] \in Transaction /\ xact[S5c(g)].last = "command"
      /\ FineX(S5c(g), xact[S5c(g)], accepted, Und, age) /\ age \in 0 .. Patience
      /\ xact \in [Xacts -> Transaction \cup {NULL}]
  BY Names DEF IInv, XactsFine, Rest, At, Live
<1>2. assoc[g] = S11 \/ (assoc[g] = None /\ ~Und)
  BY <1>1 DEF IInv, Linked, LegsAgree, At
<1>3. ASSUME assoc[g] = S11
      PROVE  /\ Live(S11) /\ xact[S11] \in Transaction /\ xact[S11].last = "command"
             /\ FineX(S11, xact[S11], accepted, Und, age)
             /\ \A h \in Forwards : assoc[h] = S11 => h = g
  <2>1. Live(S11) /\ \A h \in Forwards : assoc[h] = S11 => h = g
    BY <1>3, Names DEF IInv, Linked, LegsAgree
  <2>2. xact[S11].last = xact[S5c(g)].last \/ xact[S5c(g)].last = "error"
    BY <1>3 DEF IInv, Linked, LegsAgree, At
  <2>3. xact[S11] \in Transaction /\ FineX(S11, xact[S11], accepted, Und, age)
    BY <2>1, Names DEF IInv, XactsFine, Live
  <2> QED BY <1>1, <2>1, <2>2, <2>3
<1> QED BY <1>1, <1>2, <1>3

\* Both legs are at the same step again.
LEMMA BothMoved ==
    ASSUME IInv, NEW g \in Forwards, At(S5c(g), {"command"}), assoc[g] = S11, assoc' = assoc,
           Und' => Und, NEW m \in {"trigger", "failure"},
           \A y \in Xacts : y # S11 /\ y # S5c(g) => xact'[y] = xact[y],
           xact'[S11] \in Transaction, xact'[S5c(g)] \in Transaction,
           xact'[S11].last = m, xact'[S5c(g)].last = m
    PROVE  Linked'
<1>1. /\ \A h \in Forwards : assoc[h] = S11 => h = g
      /\ assoc \in [Forwards -> Legs \cup {None}]
  BY Commanding DEF IInv, Linked
<1>2. Live(S11)' /\ Live(S5c(g))'
  BY Records DEF Live
<1>3. ASSUME NEW h \in Forwards, h # g
      PROVE  xact'[S11n(h)] = xact[S11n(h)] /\ xact'[S5c(h)] = xact[S5c(h)]
  BY <1>3, Names
<1>4. LegsAgree'
  <2> SUFFICES ASSUME NEW h \in Forwards, h # g, assoc[h] # None
      PROVE  /\ Live(S5c(h))' /\ Live(assoc[h])'
             /\ assoc[h] = S11n(h) /\ At(S11n(h), {"trigger"})' /\ At(S5c(h), {"trigger"})'
    BY <1>1, <1>2, Names DEF LegsAgree
  <2>1. /\ assoc[h] = S11n(h) /\ At(S11n(h), {"trigger"}) /\ At(S5c(h), {"trigger"})
    BY <1>1 DEF IInv, Linked, LegsAgree
  <2> QED BY <1>3, <2>1 DEF At, Live
<1>5. Und' => \A h \in Forwards : At(S5c(h), {"command"})' => assoc'[h] = S11
  <2> SUFFICES ASSUME Und, NEW h \in Forwards, h # g, At(S5c(h), {"command"})'
      PROVE  assoc[h] = S11
    OBVIOUS
  <2>1. At(S5c(h), {"command"})
    BY <1>3 DEF At, Live
  <2> QED BY <2>1 DEF IInv, Linked
<1> QED BY <1>1, <1>4, <1>5 DEF Linked

LEMMA ForwardTriggerStep ==
    ASSUME IInv, NEW g \in Forwards, ForwardTrigger(g) PROVE IInv'
<1> DEFINE q == xact[S5c(g)]
           l == xact[S11]
           t == Triggered(S5c(g), "trigger")
<1>1. /\ At(S5c(g), {"command"})
      /\ UNCHANGED <<answered, forwards, outcome, nas, modified, down, age>>
  BY DEF ForwardTrigger
<1>2. /\ S5c(g) \in Xacts /\ q \in Transaction /\ q.last = "command"
      /\ FineX(S5c(g), q, accepted, Und, age) /\ age \in 0 .. Patience
      /\ xact \in [Xacts -> Transaction \cup {NULL}]
      /\ assoc[g] = S11 \/ (assoc[g] = None /\ ~Und)
      /\ assoc[g] = S11 =>
           /\ Live(S11) /\ l \in Transaction /\ l.last = "command"
           /\ FineX(S11, l, accepted, Und, age)
           /\ \A h \in Forwards : assoc[h] = S11 => h = g
  BY <1>1, Commanding
<1>3. /\ (accepted' <=> accepted) /\ (accepted => accepted') /\ (answered => answered')
      /\ (Und' <=> Und) /\ answered' \in BOOLEAN
  BY <1>1 DEF IInv, Rest, nas, Und
<1>4. outcome # "idle" /\ outcome' \in {"pending", "timeout", "refused"}
  BY <1>1, Started, Answer, Names DEF At
<1>5. /\ S11 \in Xacts /\ S11n(g) \in Xacts /\ S11 # S5c(g) /\ S11n(g) # S5c(g) /\ S11n(g) # S11
      /\ "trigger" \in LastsOf(S5c(g)) /\ "trigger" \in AsksOf(S11) /\ "trigger" \in LastsOf(S11)
      /\ "trigger" \in AsksOf(S11n(g)) /\ "trigger" \in SaysOf(S11) /\ "trigger" \in SaysOf(S11n(g))
  BY Names, Tables
<1>6. t \in Transaction /\ t.last = "trigger" /\ FineX(S5c(g), t, accepted', Und', age)
  <2>1. t = [last |-> "trigger", rcount |-> q.rcount, response |-> Off, holding |-> T3Holding]
    BY DEF Triggered, Stopped
  <2>2. FineX(S5c(g), q, accepted', Und', age)
    BY <1>2, <1>3, Kept
  <2> DEFINE r == [last |-> "trigger", rcount |-> q.rcount, response |-> Off, holding |-> T3Holding]
  <2>3. "trigger" \notin Answers /\ T3Holding \in {q.holding, T3Holding}
    BY DEF Answers
  <2>4. r \in Transaction /\ FineX(S5c(g), r, accepted', Und', age)
    BY ONLY <1>2, <1>5, <2>2, <2>3, StoppedFine
  <2> QED BY <2>1, <2>4
<1>7. CASE assoc[g] = S11
  <2>1. /\ xact' = [xact EXCEPT ![S5c(g)] = t, ![S11].last = "trigger", ![S11].response = T3]
        /\ assoc' = assoc /\ net' = Send(net, S11, "trigger")
    BY <1>7, Names DEF ForwardTrigger
  <2>2. /\ xact'[S5c(g)] = t
        /\ xact'[S11] = [last |-> "trigger", rcount |-> l.rcount, response |-> T3,
                         holding |-> l.holding]
        /\ \A y \in Xacts : y # S11 /\ y # S5c(g) => xact'[y] = xact[y]
        /\ DOMAIN xact' = Xacts /\ xact' = [y \in Xacts |-> xact'[y]]
    BY <1>2, <1>5, <1>7, <2>1 DEF Transaction
  <2>3. l.rcount \in 1 .. 3 /\ l.holding \in Off .. Patience /\ l.rcount = 3
    BY <1>2, <1>7, Records DEF FineX
  <2>4. /\ xact'[S11] \in Transaction /\ xact'[S11].last = "trigger" /\ xact'[S11].rcount = 3
        /\ xact'[S11].response = T3 /\ xact'[S11].holding = l.holding /\ xact'[S11] # NULL
    BY <2>2, <2>3, Records, Numbers DEF Messages
  <2>5. T3 + Left(3) + age >= Patience
    BY <1>2, Numbers DEF Left
  <2>6. FineX(S11, xact'[S11], accepted', Und', age)
    <3>1. Und => (Running(l.holding) => l.holding + age >= Patience)
      BY <1>2, <1>7, Records DEF FineX
    <3>2. "trigger" \notin Answers
      BY DEF Answers
    <3> HIDE DEF l
    <3> QED BY ONLY <1>3, <1>5, <2>4, <2>5, <3>1, <3>2 DEF FineX
  <2>7. xact' \in [Xacts -> Transaction \cup {NULL}]
    BY <1>2, <1>6, <2>2, <2>4
  <2>8. \A y \in Xacts : xact'[y] = xact[y] \/ FineX(y, xact'[y], accepted', Und', age)
    BY <1>6, <2>2, <2>6
  <2>9. \A d \in net' : d \in net \/ FineD(d, accepted', Und')
    BY <1>5, <2>1, SendFine DEF Answers
  <2>10. XactsFine' /\ NetFine'
    BY <1>1, <1>3, <2>7, <2>8, <2>9, Step
  <2>11. Linked'
    <3>1. /\ xact'[S5c(g)] \in Transaction /\ xact'[S5c(g)].last = "trigger"
          /\ At(S5c(g), {"command"}) /\ assoc[g] = S11 /\ assoc' = assoc /\ (Und' => Und)
      BY <1>1, <1>3, <1>6, <1>7, <2>1, <2>2
    <3> HIDE DEF q, l, t
    <3> QED BY <2>2, <2>4, <3>1, BothMoved
  <2>12. Live(S11)'
    BY <2>4 DEF Live
  <2>13. Rest'
    BY <1>1, <1>3, <1>4, <2>12, RestSame
  <2> QED BY <2>10, <2>11, <2>13 DEF IInv
<1>8. CASE assoc[g] = None /\ ~Und
  <2>1. /\ xact' = [xact EXCEPT ![S5c(g)] = t, ![S11n(g)] = Waiting("trigger", Off)]
        /\ assoc' = [assoc EXCEPT ![g] = S11n(g)] /\ net' = Send(net, S11n(g), "trigger")
    BY <1>8, Names DEF ForwardTrigger
  <2>2. /\ Waiting("trigger", Off) \in Transaction
        /\ FineX(S11n(g), Waiting("trigger", Off), accepted', Und', age)
    BY <1>2, <1>5, WaitingFine DEF Answers
  <2>3. /\ xact'[S5c(g)] = t /\ xact'[S11n(g)] = Waiting("trigger", Off)
        /\ \A y \in Xacts : y # S11n(g) /\ y # S5c(g) => xact'[y] = xact[y]
        /\ xact' \in [Xacts -> Transaction \cup {NULL}]
    BY <1>2, <1>5, <1>6, <2>1, <2>2
  <2>4. \A y \in Xacts : xact'[y] = xact[y] \/ FineX(y, xact'[y], accepted', Und', age)
    BY <1>6, <2>2, <2>3
  <2>5. \A d \in net' : d \in net \/ FineD(d, accepted', Und')
    BY <1>5, <2>1, SendFine DEF Answers
  <2>6. XactsFine' /\ NetFine'
    BY <1>1, <1>3, <2>3, <2>4, <2>5, Step
  <2>7. Waiting("trigger", Off).last = "trigger"
    BY DEF Waiting
  <2>8. Waiting("trigger", Off) # NULL /\ t # NULL
    BY <1>6, <2>2, Records
  <2>9. /\ Live(S5c(g))' /\ At(S5c(g), {"trigger"})'
        /\ Live(S11n(g))' /\ At(S11n(g), {"trigger"})'
    BY <1>6, <2>3, <2>7, <2>8 DEF Live, At
  <2>10. /\ assoc' \in [Forwards -> Legs \cup {None}] /\ assoc'[g] = S11n(g)
         /\ \A h \in Forwards : h # g => assoc'[h] = assoc[h]
    BY <2>1, LegNames DEF IInv, Linked
  <2>11. ASSUME NEW h \in Forwards, h # g
         PROVE  /\ xact'[S11n(h)] = xact[S11n(h)] /\ xact'[S5c(h)] = xact[S5c(h)]
                /\ xact'[S11] = xact[S11]
    BY <1>5, <2>3, <2>11, Names
  <2>12. ASSUME NEW h \in Forwards, h # g, assoc[h] # None
         PROVE  /\ Live(S5c(h))' /\ Live(assoc[h])'
                /\ assoc[h] = S11 =>
                     /\ \/ xact'[S11].last = xact'[S5c(h)].last
                        \/ At(S11, {"command"})' /\ At(S5c(h), {"error"})'
                     /\ \A k \in Forwards : assoc[k] = S11 => k = h
                /\ assoc[h] # S11 =>
                     assoc[h] = S11n(h) /\ At(S11n(h), {"trigger"})' /\ At(S5c(h), {"trigger"})'
    <3>1. /\ Live(S5c(h)) /\ Live(assoc[h]) /\ (assoc[h] = S11 \/ assoc[h] = S11n(h))
          /\ assoc'[h] = assoc[h]
      BY <2>10, <2>12 DEF IInv, Linked, LegsAgree
    <3>2. Live(S5c(h))' /\ Live(assoc[h])'
      BY <2>11, <2>12, <3>1 DEF Live
    <3>3. ASSUME assoc[h] = S11
          PROVE  /\ \/ xact'[S11].last = xact'[S5c(h)].last
                    \/ At(S11, {"command"})' /\ At(S5c(h), {"error"})'
                 /\ \A k \in Forwards : assoc[k] = S11 => k = h
      BY <2>11, <2>12, <3>3, Names DEF IInv, Linked, LegsAgree, At, Live
    <3>4. ASSUME assoc[h] # S11
          PROVE  assoc[h] = S11n(h) /\ At(S11n(h), {"trigger"})' /\ At(S5c(h), {"trigger"})'
      BY <2>11, <2>12, <3>4 DEF IInv, Linked, LegsAgree, At, Live
    <3> QED BY <3>2, <3>3, <3>4
  <2>13. LegsAgree'
    BY <1>5, <1>8, <2>9, <2>10, <2>12, Names DEF LegsAgree
  <2>14. ~Und'
    BY <1>3, <1>8
  <2>15. Rest'
    BY <1>1, <1>3, <1>4, <2>14, RestSame
  <2> QED BY <2>6, <2>10, <2>13, <2>14, <2>15 DEF IInv, Linked
<1> QED BY <1>2, <1>7, <1>8

LEMMA RejectTriggerStep ==
    ASSUME IInv, NEW g \in Forwards, RejectTrigger(g) PROVE IInv'
<1> DEFINE q == xact[S5c(g)]
           t == Triggered(S5c(g), "error")
<1>1. /\ At(S5c(g), {"command"}) /\ xact' = [xact EXCEPT ![S5c(g)] = t]
      /\ net' = Send(net, S5c(g), "error")
      /\ UNCHANGED <<assoc, forwards, outcome, nas, modified, down, age>>
  BY DEF RejectTrigger
<1>2. /\ S5c(g) \in Xacts /\ q \in Transaction /\ q.last = "command"
      /\ FineX(S5c(g), q, accepted, Und, age) /\ age \in 0 .. Patience
      /\ xact \in [Xacts -> Transaction \cup {NULL}]
      /\ assoc[g] = S11 \/ (assoc[g] = None /\ ~Und)
      /\ assoc[g] = S11 => Live(S11) /\ xact[S11].last = "command"
  BY <1>1, Commanding
<1>3. /\ (accepted => accepted') /\ (answered => answered') /\ ~Und' /\ answered' \in BOOLEAN
  BY <1>1 DEF nas, Und, RejectTrigger
<1>4. t \in Transaction /\ t.last = "error" /\ FineX(S5c(g), t, accepted', Und', age)
  <2>1. t = [last |-> "error", rcount |-> q.rcount, response |-> Off, holding |-> T3Holding]
    BY DEF Triggered, Stopped
  <2>2. FineX(S5c(g), q, accepted', Und', age)
    BY <1>2, <1>3, Kept
  <2>3. "error" \in LastsOf(S5c(g)) /\ S5c(g) # S11
    BY Names, Tables
  <2> DEFINE r == [last |-> "error", rcount |-> q.rcount, response |-> Off, holding |-> T3Holding]
  <2>4. r \in Transaction /\ FineX(S5c(g), r, accepted', Und', age)
    BY ONLY <1>2, <1>3, <2>2, <2>3, StoppedFine
  <2> QED BY <2>1, <2>4
<1>5. /\ xact'[S5c(g)] = t /\ \A y \in Xacts : y # S5c(g) => xact'[y] = xact[y]
      /\ xact' \in [Xacts -> Transaction \cup {NULL}]
  BY <1>1, <1>2, <1>4
<1>6. \A y \in Xacts : xact'[y] = xact[y] \/ FineX(y, xact'[y], accepted', Und', age)
  BY <1>4, <1>5
<1>7. \A d \in net' : d \in net \/ FineD(d, accepted', Und')
  BY <1>1, <1>2, <1>3, SendFine, Tables
<1>8. XactsFine' /\ NetFine'
  BY <1>1, <1>3, <1>5, <1>6, <1>7, Step
<1>9. Live(S5c(g))' /\ At(S5c(g), {"error"})'
  BY <1>4, <1>5, Records DEF Live, At
<1>10. /\ xact'[S11] = xact[S11]
       /\ \A h \in Forwards : /\ xact'[S11n(h)] = xact[S11n(h)]
                              /\ h # g => xact'[S5c(h)] = xact[S5c(h)]
  BY <1>2, <1>5, Names
<1>11. LegsAgree'
  <2>1. ASSUME NEW h \in Forwards, assoc[h] # None
        PROVE  /\ Live(S5c(h))' /\ Live(assoc[h])'
               /\ assoc[h] = S11 =>
                    /\ \/ xact'[S11].last = xact'[S5c(h)].last
                       \/ At(S11, {"command"})' /\ At(S5c(h), {"error"})'
                    /\ \A k \in Forwards : assoc[k] = S11 => k = h
               /\ assoc[h] # S11 =>
                    assoc[h] = S11n(h) /\ At(S11n(h), {"trigger"})' /\ At(S5c(h), {"trigger"})'
    <3>1. /\ Live(S5c(h)) /\ Live(assoc[h]) /\ (assoc[h] = S11 \/ assoc[h] = S11n(h))
          /\ assoc'[h] = assoc[h] /\ (h = g => assoc[h] = S11)
      BY <1>1, <1>2, <2>1 DEF IInv, Linked, LegsAgree
    <3>2. Live(S5c(h))' /\ Live(assoc[h])'
      BY <1>9, <1>10, <2>1, <3>1 DEF Live
    <3>3. ASSUME assoc[h] = S11
          PROVE  /\ \/ xact'[S11].last = xact'[S5c(h)].last
                    \/ At(S11, {"command"})' /\ At(S5c(h), {"error"})'
                 /\ \A k \in Forwards : assoc[k] = S11 => k = h
      <4>1. \A k \in Forwards : assoc[k] = S11 => k = h
        BY <3>3, Names DEF IInv, Linked, LegsAgree
      <4>2. CASE h = g
        <5>1. At(S11, {"command"})'
          BY <1>2, <1>10, <3>3, <4>2 DEF At, Live
        <5> QED BY <1>9, <4>1, <4>2, <5>1
      <4>3. CASE h # g
        BY <1>10, <2>1, <3>3, <4>1, <4>3, Names DEF IInv, Linked, LegsAgree, At, Live
      <4> QED BY <4>2, <4>3
    <3>4. ASSUME assoc[h] # S11
          PROVE  assoc[h] = S11n(h) /\ At(S11n(h), {"trigger"})' /\ At(S5c(h), {"trigger"})'
      BY <1>10, <2>1, <3>1, <3>4 DEF IInv, Linked, LegsAgree, At, Live
    <3> QED BY <3>2, <3>3, <3>4
  <2> QED BY <1>1, <2>1, Names DEF LegsAgree
<1>12. Rest'
  <2>1. outcome # "idle" /\ outcome' \in {"pending", "timeout", "refused"}
    BY <1>1, <1>2, Started, Answer DEF At
  <2> QED BY <1>1, <1>3, <2>1, RestSame
<1> QED BY <1>1, <1>3, <1>8, <1>11, <1>12 DEF IInv, Linked

LEMMA ForwardFailureStep ==
    ASSUME IInv, NEW g \in Forwards, ForwardFailure(g) PROVE IInv'
<1> DEFINE q == xact[S5c(g)]
           l == xact[S11]
           t == Stopped(S5c(g), "failure", q.holding)
<1>1. /\ At(S5c(g), {"command"})
      /\ UNCHANGED <<answered, forwards, outcome, nas, modified, age>>
  BY DEF ForwardFailure
<1>2. /\ S5c(g) \in Xacts /\ q \in Transaction /\ q.last = "command"
      /\ FineX(S5c(g), q, accepted, Und, age) /\ age \in 0 .. Patience
      /\ xact \in [Xacts -> Transaction \cup {NULL}]
      /\ assoc[g] = S11 \/ (assoc[g] = None /\ ~Und)
      /\ assoc[g] = S11 =>
           /\ Live(S11) /\ l \in Transaction /\ l.last = "command"
           /\ FineX(S11, l, accepted, Und, age)
  BY <1>1, Commanding
<1>3. /\ (accepted' <=> accepted) /\ (accepted => accepted') /\ (answered => answered')
      /\ (Und' <=> Und) /\ answered' \in BOOLEAN
  BY <1>1 DEF IInv, Rest, nas, Und
<1>4. outcome # "idle" /\ outcome' \in {"pending", "timeout", "refused"}
  BY <1>1, Started, Answer, Names DEF At
<1>5. /\ S11 \in Xacts /\ S11 # S5c(g) /\ "failure" \in LastsOf(S5c(g))
      /\ "failure" \in LastsOf(S11) /\ "failure" \in SaysOf(S11) /\ AsksOf(S11) = {"trigger"}
  BY Names, Tables
<1>6. t \in Transaction /\ t.last = "failure" /\ FineX(S5c(g), t, accepted', Und', age)
  <2>1. t = [last |-> "failure", rcount |-> q.rcount, response |-> Off, holding |-> q.holding]
    BY DEF Stopped
  <2>2. FineX(S5c(g), q, accepted', Und', age)
    BY <1>2, <1>3, Kept
  <2> DEFINE r == [last |-> "failure", rcount |-> q.rcount, response |-> Off, holding |-> q.holding]
  <2>3. "failure" \notin Answers /\ q.holding \in {q.holding, T3Holding}
    BY DEF Answers
  <2>4. r \in Transaction /\ FineX(S5c(g), r, accepted', Und', age)
    BY ONLY <1>2, <1>5, <2>2, <2>3, StoppedFine
  <2> QED BY <2>1, <2>4
<1>7. CASE assoc[g] = S11
  <2>1. /\ xact' = [xact EXCEPT ![S5c(g)] = t, ![S11].last = "failure"]
        /\ assoc' = assoc /\ down' = down /\ net' = Send(net, S11, "failure")
    BY <1>7, Names DEF ForwardFailure
  <2>2. /\ xact'[S5c(g)] = t
        /\ xact'[S11] = [last |-> "failure", rcount |-> l.rcount, response |-> l.response,
                         holding |-> l.holding]
        /\ \A y \in Xacts : y # S11 /\ y # S5c(g) => xact'[y] = xact[y]
        /\ DOMAIN xact' = Xacts /\ xact' = [y \in Xacts |-> xact'[y]]
    BY <1>2, <1>5, <1>7, <2>1 DEF Transaction
  <2>3. /\ l.rcount \in 1 .. 3 /\ l.holding \in Off .. Patience /\ l.response \in Off .. T3
        /\ ~Running(l.response)
    BY <1>2, <1>5, <1>7, Records DEF FineX
  <2>4. /\ xact'[S11] \in Transaction /\ xact'[S11].last = "failure" /\ xact'[S11].rcount = l.rcount
        /\ xact'[S11].response = l.response /\ xact'[S11].holding = l.holding /\ xact'[S11] # NULL
    BY <2>2, <2>3, Records, Numbers DEF Messages
  <2>5. FineX(S11, xact'[S11], accepted', Und', age)
    <3>1. Und => (Running(l.holding) => l.holding + age >= Patience)
      BY <1>2, <1>7, Records DEF FineX
    <3>2. "failure" \notin Answers
      BY DEF Answers
    <3> HIDE DEF l
    <3> QED BY ONLY <1>3, <1>5, <2>3, <2>4, <3>1, <3>2 DEF FineX
  <2>6. xact' \in [Xacts -> Transaction \cup {NULL}]
    BY <1>2, <1>6, <2>2, <2>4
  <2>7. \A y \in Xacts : xact'[y] = xact[y] \/ FineX(y, xact'[y], accepted', Und', age)
    BY <1>6, <2>2, <2>5
  <2>8. \A d \in net' : d \in net \/ FineD(d, accepted', Und')
    BY <1>5, <2>1, SendFine DEF Answers
  <2>9. XactsFine' /\ NetFine'
    BY <1>1, <1>3, <2>6, <2>7, <2>8, Step
  <2>10. Linked'
    <3>1. /\ xact'[S5c(g)] \in Transaction /\ xact'[S5c(g)].last = "failure"
          /\ At(S5c(g), {"command"}) /\ assoc[g] = S11 /\ assoc' = assoc /\ (Und' => Und)
      BY <1>1, <1>3, <1>6, <1>7, <2>1, <2>2
    <3> HIDE DEF q, l, t
    <3> QED BY <2>2, <2>4, <3>1, BothMoved
  <2>11. Live(S11)'
    BY <2>4 DEF Live
  <2>12. Rest'
    BY <1>1, <1>3, <1>4, <2>1, <2>11, RestSame
  <2> QED BY <2>9, <2>10, <2>12 DEF IInv
<1>8. CASE assoc[g] = None /\ ~Und
  <2>1. Abort("sgwc") /\ net' = net
    BY <1>8, Names DEF ForwardFailure
  <2> QED BY <1>1, <1>4, <1>8, <2>1, AbortSame DEF Daemons
<1> QED BY <1>2, <1>7, <1>8

\* What the MME makes of an Update Bearer Request.
LEMMA RequestedFine ==
    ASSUME IInv, NEW x \in Xacts, x = Mme \/ \E g \in Forwards : x = Mmen(g), MayAsk(x),
           NEW m \in {"trigger", "error"}, NEW acc, NEW und, und => Und /\ m # "error"
    PROVE  /\ Requested(x, m) \in Transaction
           /\ FineX(x, Requested(x, m), acc, und, age)
<1>1. age \in 0 .. Patience /\ m # "reply" /\ (und => m \notin Answers) /\ m \in LastsOf(x)
  BY Tables DEF IInv, Rest, Answers
<1>2. CASE x = Mme
  <2> DEFINE q == xact[Mme]
  <2>1. q \in Transaction /\ q.last = "command" /\ FineX(Mme, q, accepted, Und, age)
    BY <1>2 DEF MayAsk, At, Live, IInv, XactsFine
  <2>2. Requested(x, m) = [last |-> m, rcount |-> q.rcount, response |-> Off,
                           holding |-> T3Holding]
    BY <1>2 DEF Requested, Triggered, Stopped
  <2>3. FineX(Mme, q, acc, und, age)
    BY <2>1 DEF FineX
  <2> DEFINE r == [last |-> m, rcount |-> q.rcount, response |-> Off, holding |-> T3Holding]
  <2>4. Mme # S11 /\ Mme \in Xacts /\ m \in LastsOf(Mme)
    BY <1>1, <1>2, Names
  <2>5. r \in Transaction /\ FineX(Mme, r, acc, und, age)
    BY ONLY <1>1, <2>1, <2>3, <2>4, StoppedFine
  <2> QED BY <1>2, <2>2, <2>5
<1>3. CASE x # Mme
  <2>1. Requested(x, m) = Held(m, T3Holding)
    BY <1>3 DEF Requested
  <2> QED BY <1>1, <2>1, HeldFine
<1> QED BY <1>2, <1>3

LEMMA AskUeStep ==
    ASSUME IInv, NEW x \in Xacts, x = Mme \/ \E g \in Forwards : x = Mmen(g), AskUe(x), net # {}
    PROVE  IInv'
<1>1. /\ MayAsk(x) /\ xact' = [xact EXCEPT ![x] = Requested(x, "trigger")]
      /\ update' = x /\ asked <= MaxForwards /\ asked' = asked + 1
      /\ UNCHANGED <<answered, assoc, forwards, net, outcome, accepted, modified, down, age>>
  BY DEF AskUe
<1>2. /\ (accepted => accepted') /\ (answered => answered') /\ (Und' => Und)
      /\ answered' \in BOOLEAN /\ accepted' \in BOOLEAN /\ modified' \in BOOLEAN
      /\ (modified' => modified)
  BY <1>1 DEF IInv, Rest, Und
<1>3. DaemonOf(x) = "mme" /\ x # None
  BY Names, Homes
<1>4. /\ Requested(x, "trigger") \in Transaction
      /\ FineX(x, Requested(x, "trigger"), accepted', Und', age)
  BY <1>1, <1>2, RequestedFine
<1>5. /\ xact' \in [Xacts -> Transaction \cup {NULL}] /\ xact'[x] = Requested(x, "trigger")
      /\ \A y \in Xacts : y # x => xact'[y] = xact[y]
  BY <1>1, <1>4 DEF IInv, XactsFine
<1>6. \A d \in net' : d \in net \/ FineD(d, accepted', Und')
  BY <1>1
<1>7. XactsFine' /\ NetFine' /\ Linked' /\ (Live(S11) => Live(S11)')
  BY <1>1, <1>2, <1>3, <1>4, <1>5, <1>6, OneKept
<1>8. outcome # "idle" /\ outcome' \in {"pending", "timeout", "refused"}
  BY <1>1, Started, Answer
<1>9. asked' \in 0 .. (MaxForwards + 1) /\ (asked' > 0 => update' # None)
      /\ update' \in {y \in Xacts : DaemonOf(y) = "mme"} \cup {None}
  BY <1>1, <1>3, Numbers DEF IInv, Rest
<1>10. down' \subseteq Daemons
  BY <1>1 DEF IInv, Rest
<1>11. Rest'
  BY <1>1, <1>2, <1>7, <1>8, <1>9, <1>10, RestKept
<1> QED BY <1>7, <1>11 DEF IInv

LEMMA RejectRequestStep ==
    ASSUME IInv, NEW x \in Xacts, x = Mme \/ \E g \in Forwards : x = Mmen(g), RejectRequest(x),
           net # {}
    PROVE  IInv'
<1>1. /\ MayAsk(x) /\ xact' = [xact EXCEPT ![x] = Requested(x, "error")]
      /\ net' = Send(net, x, "error")
      /\ UNCHANGED <<assoc, forwards, outcome, nas, modified, down, age>>
  BY DEF RejectRequest
<1>2. /\ (answered => answered') /\ ~Und' /\ answered' \in BOOLEAN
  BY DEF RejectRequest, Und
<1>3. DaemonOf(x) # "sgwc" /\ "error" \in SaysOf(x)
  BY Tables, Homes
<1>4. /\ Requested(x, "error") \in Transaction
      /\ FineX(x, Requested(x, "error"), accepted', Und', age)
  BY <1>1, <1>2, RequestedFine
<1> QED BY <1>1, <1>2, <1>3, <1>4, NewXact

LEMMA RefusedStep == ASSUME IInv, Refused PROVE IInv'
<1>1. /\ Live(Mme) /\ Delete(Mme) /\ net' = net /\ age' = age /\ outcome' = "refused"
      /\ UNCHANGED <<answered, forwards, nas, modified, down>>
  BY DEF Refused, At
<1>2. /\ (accepted => accepted') /\ (answered => answered') /\ answered' \in BOOLEAN
  BY <1>1 DEF nas, IInv, Rest
<1>3. XactsFine' /\ NetFine' /\ Linked' /\ (Und' => (Live(S11) => Live(S11)'))
  BY <1>1, <1>2, DeleteGone, Names
<1>4. outcome # "idle"
  BY <1>1, Started, Names
<1>5. Rest'
  BY <1>1, <1>2, <1>3, <1>4, RestSame
<1> QED BY <1>3, <1>5 DEF IInv

\* The legs that are linked when the answer comes.
LEMMA ForwardAnswerStep ==
    ASSUME IInv, NEW leg \in Legs, NEW m \in Answers, ForwardAnswer(leg, m), ~Und, net # {},
           leg = S11 => At(S11, {"trigger", "failure"}), ~accepted => m # "reply"
    PROVE  IInv'
<1>1. UNCHANGED <<answered, forwards, outcome, nas, modified, age>>
  BY DEF ForwardAnswer
<1>2. /\ (accepted' <=> accepted) /\ (accepted => accepted') /\ (answered => answered')
      /\ ~Und' /\ answered' \in BOOLEAN /\ age \in 0 .. Patience
  BY <1>1 DEF IInv, Rest, nas, Und
<1>3. outcome # "idle" /\ outcome' \in {"pending", "timeout", "refused"}
  BY <1>1, Started, Answer
<1>4. ASSUME NEW g \in Forwards, assoc[g] = leg,
             xact' = [xact EXCEPT ![leg] = NULL, ![S5c(g)].last = m],
             assoc' = [assoc EXCEPT ![g] = None], net' = Send(net, S5c(g), m), down' = down
      PROVE  IInv'
  <2> DEFINE q == xact[S5c(g)]
  <2>1. /\ leg # None /\ leg \in Xacts /\ S5c(g) \in Xacts /\ leg # S5c(g)
        /\ leg = S11 \/ leg = S11n(g)
        /\ \A h \in Forwards : h # g => S5c(h) # S5c(g) /\ S5c(h) # leg /\ S5c(h) \in Xacts
    <3>1. leg # None /\ leg \in Xacts
      BY LegNames
    <3>2. leg = S11 \/ leg = S11n(g)
      BY <1>4, <3>1 DEF IInv, Linked, LegsAgree
    <3> QED BY <3>1, <3>2, Names
  <2>2. /\ q \in Transaction /\ FineX(S5c(g), q, accepted, Und, age)
        /\ xact \in [Xacts -> Transaction \cup {NULL}]
    <3>1. Live(S5c(g))
      BY <1>4, <2>1 DEF IInv, Linked, LegsAgree
    <3> QED BY <2>1, <3>1 DEF IInv, XactsFine, Live
  <2>3. q.last \notin {"command"}
    <3>1. CASE leg = S11
      BY <1>4, <3>1 DEF IInv, Linked, LegsAgree, At
    <3>2. CASE leg # S11
      BY <1>4, <2>1, <3>2 DEF IInv, Linked, LegsAgree, At
    <3> QED BY <3>1, <3>2
  <2>4. /\ AsksOf(S5c(g)) = {"command"} /\ m \in LastsOf(S5c(g)) /\ m \in SaysOf(S5c(g))
        /\ S5c(g) # S11
    BY Tables, Names DEF Answers
  <2>5. /\ q.rcount \in 1 .. 3 /\ q.response \in Off .. T3 /\ q.holding \in Off .. Patience
        /\ ~Running(q.response)
    BY <2>2, <2>3, <2>4, Records DEF FineX
  <2>6. /\ xact'[S5c(g)] = [last |-> m, rcount |-> q.rcount, response |-> q.response,
                            holding |-> q.holding]
        /\ xact'[leg] = NULL
        /\ \A y \in Xacts : y # leg /\ y # S5c(g) => xact'[y] = xact[y]
        /\ DOMAIN xact' = Xacts /\ xact' = [y \in Xacts |-> xact'[y]]
    BY <1>4, <2>1, <2>2 DEF Transaction
  <2>7. m \in Messages
    BY DEF Messages, Answers
  <2>8. /\ xact'[S5c(g)] \in Transaction /\ xact'[S5c(g)].last = m
        /\ xact'[S5c(g)].response = q.response
    BY <2>5, <2>6, <2>7, Records
  <2>9. FineX(S5c(g), xact'[S5c(g)], accepted', Und', age)
    <3> HIDE DEF q
    <3> QED BY ONLY <1>2, <2>4, <2>5, <2>8, ~accepted => m # "reply" DEF FineX
  <2>10. xact' \in [Xacts -> Transaction \cup {NULL}]
    BY <2>1, <2>2, <2>6, <2>8
  <2>11. \A y \in Xacts : xact'[y] = xact[y] \/ FineX(y, xact'[y], accepted', Und', age)
    BY <2>6, <2>9, NullFine
  <2>12. \A d \in net' : d \in net \/ FineD(d, accepted', Und')
    BY <1>2, <1>4, <2>1, <2>4, SendFine
  <2>13. XactsFine' /\ NetFine'
    BY <1>1, <1>2, <2>10, <2>11, <2>12, Step
  <2>14. /\ assoc' \in [Forwards -> Legs \cup {None}]
         /\ assoc'[g] = None /\ \A h \in Forwards : h # g => assoc'[h] = assoc[h]
    BY <1>4 DEF IInv, Linked
  <2>15. ASSUME NEW h \in Forwards, assoc'[h] # None
         PROVE  /\ h # g /\ assoc'[h] = assoc[h] /\ assoc[h] # leg
                /\ assoc[h] = S11 \/ assoc[h] = S11n(h)
                /\ assoc[h] \in Xacts
                /\ Live(S5c(h)) /\ Live(assoc[h])
    <3>1. /\ h # g /\ assoc'[h] = assoc[h] /\ assoc[h] # None
          /\ assoc[h] = S11 \/ assoc[h] = S11n(h)
          /\ Live(S5c(h)) /\ Live(assoc[h])
      BY <2>14, <2>15 DEF IInv, Linked, LegsAgree
    <3>2. assoc[h] # leg
      <4>1. CASE leg = S11
        BY <1>4, <3>1, <4>1, Names DEF IInv, Linked, LegsAgree
      <4>2. CASE leg = S11n(g)
        BY <3>1, <4>2, Names
      <4> QED BY <2>1, <4>1, <4>2
    <3> QED BY <3>1, <3>2, Names
  <2>16. ASSUME NEW h \in Forwards, assoc'[h] # None
         PROVE  xact'[S5c(h)] = xact[S5c(h)] /\ xact'[assoc[h]] = xact[assoc[h]]
    <3>1. assoc[h] # S5c(g)
      BY <2>15, <2>16, Names
    <3> QED BY <2>1, <2>6, <2>15, <2>16, <3>1
  <2>17. LegsAgree'
    <3>1. ASSUME NEW h \in Forwards, assoc'[h] # None
          PROVE  /\ Live(S5c(h))' /\ Live(assoc[h])'
                 /\ assoc'[h] = S11 =>
                      /\ \/ xact'[S11].last = xact'[S5c(h)].last
                         \/ At(S11, {"command"})' /\ At(S5c(h), {"error"})'
                      /\ \A k \in Forwards : assoc'[k] = S11 => k = h
                 /\ assoc'[h] # S11 =>
                      assoc'[h] = S11n(h) /\ At(S11n(h), {"trigger"})' /\ At(S5c(h), {"trigger"})'
      <4>1. /\ assoc'[h] = assoc[h] /\ assoc[h] # None
            /\ xact'[S5c(h)] = xact[S5c(h)] /\ xact'[assoc[h]] = xact[assoc[h]]
        BY <2>15, <2>16, <3>1
      <4>2. Live(S5c(h))' /\ Live(assoc[h])'
        BY <2>15, <3>1, <4>1 DEF Live
      <4>3. ASSUME assoc'[h] = S11
            PROVE  /\ \/ xact'[S11].last = xact'[S5c(h)].last
                      \/ At(S11, {"command"})' /\ At(S5c(h), {"error"})'
                   /\ \A k \in Forwards : assoc'[k] = S11 => k = h
        <5>1. \A k \in Forwards : assoc'[k] = S11 => assoc[k] = S11
          BY <2>14, Names
        <5> QED BY <4>1, <4>3, <5>1, Names DEF IInv, Linked, LegsAgree, At, Live
      <4>4. ASSUME assoc'[h] # S11
            PROVE  assoc'[h] = S11n(h) /\ At(S11n(h), {"trigger"})' /\ At(S5c(h), {"trigger"})'
        BY <4>1, <4>4 DEF IInv, Linked, LegsAgree, At, Live
      <4> QED BY <4>2, <4>3, <4>4
    <3> QED BY <3>1, Names DEF LegsAgree
  <2>18. Rest'
    BY <1>1, <1>2, <1>3, <1>4, RestSame
  <2> QED BY <1>2, <2>13, <2>14, <2>17, <2>18 DEF IInv, Linked
<1>5. ASSUME Abort("sgwc"), net' = net PROVE IInv'
  BY <1>1, <1>3, <1>5, AbortSame DEF Daemons
<1> QED BY <1>4, <1>5 DEF ForwardAnswer

LEMMA ModifyBearerStep ==
    ASSUME IInv, NEW g \in Forwards, NEW m \in Answers, ModifyBearer(g, m), ~Und, net # {},
           ~accepted => m # "reply"
    PROVE  IInv'
<1>1. outcome # "idle"
  BY Started
<1>2. ASSUME Delete(Smf(g)), modified' = (modified \/ m = "reply"),
             UNCHANGED <<answered, forwards, net, outcome, nas, down, age>>
      PROVE  IInv'
  <2>1. /\ (accepted => accepted') /\ (answered => answered') /\ answered' \in BOOLEAN
        /\ accepted' \in BOOLEAN /\ modified' \in BOOLEAN /\ ~Und'
        /\ (modified' => modified \/ accepted')
    BY <1>2 DEF nas, IInv, Rest, Und
  <2>2. XactsFine' /\ NetFine' /\ Linked' /\ (Und' => (Live(S11) => Live(S11)'))
    BY <1>2, <2>1, DeleteGone, Names
  <2>3. /\ update' \in {x \in Xacts : DaemonOf(x) = "mme"} \cup {None}
        /\ asked' \in 0 .. (MaxForwards + 1) /\ (asked' > 0 => update' # None)
        /\ down' \subseteq Daemons /\ outcome' \in {"pending", "timeout", "refused"}
    BY <1>1, <1>2, Answer DEF IInv, Rest, nas
  <2>4. Rest'
    BY <1>1, <1>2, <2>1, <2>3, RestKept
  <2> QED BY <2>2, <2>4 DEF IInv
<1>3. ASSUME Abort("smf"), UNCHANGED <<answered, forwards, net, outcome, nas, modified, age>>
      PROVE  IInv'
  BY <1>1, <1>3, AbortSame DEF Daemons
<1> QED BY <1>2, <1>3 DEF ModifyBearer

-----------------------------------------------------------------------------
\* No transaction changes.
LEMMA Unmoved ==
    ASSUME IInv, UNCHANGED <<xact, assoc, net, age>>, accepted => accepted', answered => answered'
    PROVE  XactsFine' /\ NetFine' /\ Linked' /\ (Live(S11) => Live(S11)')
<1>1. /\ xact' \in [Xacts -> Transaction \cup {NULL}]
      /\ \A x \in Xacts : xact'[x] = xact[x] \/ FineX(x, xact'[x], accepted', Und', age)
      /\ \A d \in net' : d \in net \/ FineD(d, accepted', Und')
  BY DEF IInv, XactsFine
<1>2. XactsFine' /\ NetFine'
  BY <1>1, Step
<1>3. Und' => Und
  BY DEF Und
<1>4. \A y \in Xacts : (Live(y)' <=> Live(y)) /\ xact'[y] = xact[y]
  BY DEF Live
<1>5. /\ \A g \in Forwards : \A y \in {S11, S5c(g), S11n(g)} :
            Live(y) => Live(y)' /\ xact'[y].last = xact[y].last
      /\ \A g \in Forwards : At(S5c(g), {"command"})' => At(S5c(g), {"command"})
  BY <1>4, Names DEF At
<1>6. Linked'
  BY <1>3, <1>5, StillLinkedUp DEF IInv
<1> QED BY <1>2, <1>4, <1>6, Names

LEMMA UeAcceptsStep ==
    ASSUME IInv, UeAccepts, NEW x, x = update PROVE IInv'
<1> DEFINE q == xact[x]
<1>1. /\ asked > 0 /\ asked' = asked - 1 /\ accepted' = TRUE
      /\ UNCHANGED <<forwards, outcome, update, modified, age>>
  BY DEF UeAccepts
<1>2. /\ x \in Xacts /\ DaemonOf(x) = "mme" /\ outcome # "idle"
      /\ outcome' \in {"pending", "timeout", "refused"}
  BY <1>1, Answer DEF IInv, Rest
<1>3. /\ accepted' \in BOOLEAN /\ modified' \in BOOLEAN /\ (accepted => accepted')
      /\ (modified' => modified) /\ answered \in BOOLEAN
  BY <1>1 DEF IInv, Rest
<1>4. /\ update' \in {y \in Xacts : DaemonOf(y) = "mme"} \cup {None}
      /\ asked' \in 0 .. (MaxForwards + 1) /\ (asked' > 0 => update' # None)
      /\ down \subseteq Daemons
  BY <1>1, Numbers DEF IInv, Rest
<1>5. ASSUME UNCHANGED <<xact, assoc, net, answered, down>> PROVE IInv'
  <2>1. answered' \in BOOLEAN /\ (answered => answered')
    BY <1>3, <1>5
  <2>2. XactsFine' /\ NetFine' /\ Linked' /\ (Live(S11) => Live(S11)')
    BY <1>1, <1>3, <1>5, <2>1, Unmoved
  <2>3. Rest'
    BY <1>1, <1>2, <1>3, <1>4, <1>5, <2>1, <2>2, RestKept
  <2> QED BY <2>2, <2>3 DEF IInv
<1>6. ASSUME At(x, {"trigger"}), xact' = [xact EXCEPT ![x].last = "reply"],
             net' = Send(net, x, "reply"), answered' = TRUE, UNCHANGED <<assoc, down>>
      PROVE  IInv'
  <2>1. answered' \in BOOLEAN /\ (answered => answered') /\ ~Und'
    BY <1>6 DEF Und
  <2>2. /\ q \in Transaction /\ FineX(x, q, accepted, Und, age) /\ q.last = "trigger"
        /\ xact \in [Xacts -> Transaction \cup {NULL}]
    BY <1>2, <1>6 DEF IInv, XactsFine, At, Live
  <2>3. x = Mme \/ \E g \in Forwards : x = Mmen(g)
    BY <1>2, Kinds, Homes
  <2>4. "reply" \in LastsOf(x) /\ "reply" \in SaysOf(x) /\ "trigger" \notin AsksOf(x) /\ x # S11
    BY <2>3, Names, Tables
  <2>5. /\ q.rcount \in 1 .. 3 /\ q.response \in Off .. T3 /\ q.holding \in Off .. Patience
        /\ ~Running(q.response)
    BY <2>2, <2>4, Records DEF FineX
  <2>6. /\ xact'[x] = [last |-> "reply", rcount |-> q.rcount, response |-> q.response,
                       holding |-> q.holding]
        /\ \A y \in Xacts : y # x => xact'[y] = xact[y]
        /\ DOMAIN xact' = Xacts /\ xact' = [y \in Xacts |-> xact'[y]]
    BY <1>2, <1>6, <2>2 DEF Transaction
  <2>7. /\ xact'[x] \in Transaction /\ xact'[x].last = "reply"
        /\ xact'[x].response = q.response
    BY <2>5, <2>6, Records DEF Messages
  <2>8. FineX(x, xact'[x], accepted', Und', age)
    <3> HIDE DEF q
    <3> QED BY ONLY <1>1, <2>1, <2>4, <2>5, <2>7 DEF FineX
  <2>9. xact' \in [Xacts -> Transaction \cup {NULL}]
    BY <2>2, <2>6, <2>7
  <2>10. \A d \in net' : d \in net \/ FineD(d, accepted', Und')
    BY <1>1, <1>2, <1>6, <2>1, <2>4, SendFine
  <2>11. XactsFine' /\ NetFine' /\ Linked' /\ (Live(S11) => Live(S11)')
    BY <1>1, <1>2, <1>3, <1>6, <2>1, <2>6, <2>7, <2>8, <2>9, <2>10, OneKept
  <2>12. Rest'
    BY <1>1, <1>2, <1>3, <1>4, <1>6, <2>1, <2>11, RestKept
  <2> QED BY <2>11, <2>12 DEF IInv
<1>7. ASSUME At(x, Answers), Abort("mme"), UNCHANGED <<net, answered>> PROVE IInv'
  <2>1. FineX(x, q, accepted, Und, age) /\ q # NULL /\ q.last \in Answers
    BY <1>2, <1>7 DEF IInv, XactsFine, At, Live
  <2>2. ~Und
    BY <2>1 DEF FineX
  <2>3. ~Und' /\ answered' \in BOOLEAN /\ (answered => answered')
    BY <1>1, <1>3, <1>7, <2>2 DEF Und
  <2> QED BY <1>1, <1>2, <1>3, <1>4, <1>7, <2>3, AbortLate DEF Daemons
<1> QED BY <1>5, <1>6, <1>7 DEF UeAccepts

\* A timer of a transaction one tick later.
LEMMA OlderTimer ==
    ASSUME NEW p \in Int, Off <= p, p <= Patience, Running(p) => p > -Lag
    PROVE  /\ Older(p) \in Int /\ Off <= Older(p) /\ Older(p) <= p
           /\ Running(Older(p)) => Running(p) /\ Older(p) = p - 1
  BY Numbers DEF Older, Running, Off

LEMMA TickStep == ASSUME IInv, Tick PROVE IInv'
<1>1. /\ \A x \in Xacts : Live(x) =>
           \A timer \in {xact[x].response, xact[x].holding} : Running(timer) => timer > -Lag
      /\ xact' = [x \in Xacts |->
                    IF ~Live(x) THEN NULL
                    ELSE [xact[x] EXCEPT !.response = Older(@), !.holding = Older(@)]]
      /\ net' = {[d EXCEPT !.ttl = @ - 1] : d \in {d \in net : d.ttl > 0}}
      /\ age' = IF outcome = "idle" \/ age = Patience THEN age ELSE age + 1
      /\ UNCHANGED <<answered, assoc, forwards, outcome, nas, modified, down>>
  BY DEF Tick
<1>2. /\ age \in 0 .. Patience /\ age' \in 0 .. Patience
      /\ (outcome # "idle" /\ age # Patience) => age' = age + 1
      /\ age = Patience => age' = Patience
  <2>1. age \in 0 .. Patience
    BY DEF IInv, Rest
  <2>2. age' = IF outcome = "idle" \/ age = Patience THEN age ELSE age + 1
    BY <1>1
  <2> QED BY ONLY <2>1, <2>2, Numbers
<1>3. (accepted' <=> accepted) /\ (answered' <=> answered) /\ (Und' => Und)
  BY <1>1, <1>2 DEF nas, Und
<1>4. ASSUME NEW x \in Xacts, Live(x)
      PROVE  /\ xact'[x] \in Transaction /\ xact'[x].last = xact[x].last
             /\ FineX(x, xact'[x], accepted', Und', age')
  <2> DEFINE q == xact[x]
             r == xact'[x]
  <2>1. /\ q \in Transaction /\ FineX(x, q, accepted, Und, age) /\ q # NULL
    BY <1>4, Records DEF IInv, XactsFine, Live
  <2>2. /\ q.last \in Messages /\ q.rcount \in 1 .. 3 /\ q.response \in Off .. T3
        /\ q.holding \in Off .. Patience
    BY <2>1, Records
  <2>3. r = [last |-> q.last, rcount |-> q.rcount, response |-> Older(q.response),
             holding |-> Older(q.holding)]
    <3>1. r = [q EXCEPT !.response = Older(q.response), !.holding = Older(q.holding)]
      BY <1>1, <1>4
    <3>2. q = [last |-> q.last, rcount |-> q.rcount, response |-> q.response,
               holding |-> q.holding]
      BY <2>1 DEF Transaction
    <3> QED BY <3>1, <3>2
  <2>4. /\ Older(q.response) \in Off .. T3
        /\ Running(Older(q.response)) => Running(q.response) /\ Older(q.response) = q.response - 1
    <3>1. Running(q.response) => q.response > -Lag
      BY <1>1, <1>4
    <3>2. q.response \in Int /\ Off <= q.response /\ q.response <= Patience
      BY <2>2, Numbers
    <3> QED BY ONLY <2>2, <3>1, <3>2, OlderTimer, Numbers
  <2>5. /\ Older(q.holding) \in Off .. Patience
        /\ Running(Older(q.holding)) => Running(q.holding) /\ Older(q.holding) = q.holding - 1
    <3>1. Running(q.holding) => q.holding > -Lag
      BY <1>1, <1>4
    <3>2. q.holding \in Int /\ Off <= q.holding /\ q.holding <= Patience
      BY <2>2, Numbers
    <3> QED BY ONLY <2>2, <3>1, <3>2, OlderTimer, Numbers
  <2>6. /\ r \in Transaction /\ r # NULL /\ r.last = q.last /\ r.rcount = q.rcount
        /\ r.response = Older(q.response) /\ r.holding = Older(q.holding)
    BY <2>2, <2>3, <2>4, <2>5, Records
  <2>7. Und' => age' = age + 1
    BY <1>2, <1>3, <1>4, Started DEF Und
  <2>8. Und => /\ Running(q.holding) => q.holding + age >= Patience
               /\ Running(q.response) => q.response + Left(q.rcount) + age >= Patience
    BY <2>1 DEF FineX
  <2>9. Left(q.rcount) \in Int
    BY <2>2, Numbers DEF Left
  <2>10. Und' => /\ Running(r.holding) => r.holding + age' >= Patience
                 /\ Running(r.response) => r.response + Left(r.rcount) + age' >= Patience
    <3> HIDE DEF q, r
    <3> QED BY ONLY <1>2, <1>3, <2>2, <2>4, <2>5, <2>6, <2>7, <2>8, <2>9, Numbers
  <2>11. /\ q.last \in LastsOf(x) /\ (Running(q.response) => q.last \in AsksOf(x))
         /\ (x = S11 /\ q.last = "command" => q.rcount = 3)
         /\ (~accepted => q.last # "reply") /\ (Und => q.last \notin Answers)
    BY <2>1 DEF FineX
  <2>12. FineX(x, r, accepted', Und', age')
    <3> HIDE DEF q, r
    <3> QED BY ONLY <1>3, <2>4, <2>6, <2>10, <2>11 DEF FineX
  <2> QED BY <2>6, <2>12
<1>5. \A x \in Xacts : ~Live(x) => xact'[x] = NULL
  BY <1>1
<1>6. XactsFine'
  <2>1. xact' \in [Xacts -> Transaction \cup {NULL}]
    BY <1>1, <1>4, <1>5
  <2>2. ASSUME NEW x \in Xacts PROVE FineX(x, xact'[x], accepted', Und', age')
    BY <1>4, <1>5, NullFine
  <2> QED BY <2>1, <2>2 DEF XactsFine
<1>7. NetFine'
  <2> SUFFICES ASSUME NEW d \in net, d.ttl > 0
      PROVE  FineD([d EXCEPT !.ttl = d.ttl - 1], accepted', Und')
    BY <1>1 DEF NetFine
  <2>1. FineD(d, accepted, Und)
    BY DEF IInv, NetFine
  <2>2. /\ d \in [from : Xacts, msg : Messages, ttl : 0 .. MaxDelay] /\ d.msg \in SaysOf(d.from)
        /\ (~accepted' => d.msg # "reply") /\ (Und' => d.msg \notin Answers)
    BY <1>3, <2>1 DEF FineD
  <2> DEFINE e == [d EXCEPT !.ttl = d.ttl - 1]
  <2>3. /\ e \in [from : Xacts, msg : Messages, ttl : 0 .. MaxDelay]
        /\ e.msg = d.msg /\ e.from = d.from
    BY <2>2, Numbers
  <2> HIDE DEF e
  <2>4. FineD(e, accepted', Und')
    BY ONLY <2>2, <2>3 DEF FineD
  <2> QED BY <2>4 DEF e
<1>8. Linked'
  <2>1. \A y \in Xacts : /\ Live(y) => Live(y)' /\ xact'[y].last = xact[y].last
                         /\ Live(y)' => Live(y)
    <3>1. \A y \in Xacts : Live(y) => xact'[y] # NULL
      BY <1>4, Records
    <3> QED BY <1>4, <1>5, <3>1 DEF Live
  <2>2. \A g \in Forwards : \A y \in {S11, S5c(g), S11n(g)} :
            Live(y) => Live(y)' /\ xact'[y].last = xact[y].last
    BY <2>1, Names
  <2>3. \A g \in Forwards : At(S5c(g), {"command"})' => At(S5c(g), {"command"})
    BY <2>1, Names DEF At
  <2> QED BY <1>1, <1>3, <2>2, <2>3, StillLinkedUp DEF IInv
<1>9. Rest'
  <2>1. outcome' = "idle" => asked' = 0 /\ net' = {} /\ \A x \in Xacts : xact'[x] = NULL
    <3> SUFFICES ASSUME outcome = "idle"
        PROVE  asked' = 0 /\ net' = {} /\ \A x \in Xacts : xact'[x] = NULL
      BY <1>1
    <3>1. asked = 0 /\ net = {} /\ \A x \in Xacts : xact[x] = NULL
      BY DEF IInv, Rest
    <3>2. net' = {}
      BY <1>1, <3>1
    <3>3. asked' = 0 /\ \A x \in Xacts : xact'[x] = NULL
      BY <1>1, <1>5, <3>1 DEF nas, Live
    <3> QED BY <3>2, <3>3
  <2>2. Und' => down' = {} /\ forwards' <= 1 /\ (forwards' = 1 => Live(S11)')
    <3>1. Live(S11) => Live(S11)'
      BY <1>4, Records, Names DEF Live
    <3> QED BY <1>1, <1>3, <3>1 DEF IInv, Rest
  <2>3. /\ forwards' \in 0 .. MaxForwards
        /\ outcome' \in {"idle", "pending", "timeout", "refused"}
        /\ update' \in {x \in Xacts : DaemonOf(x) = "mme"} \cup {None}
        /\ asked' \in 0 .. (MaxForwards + 1) /\ (asked' > 0 => update' # None)
        /\ down' \subseteq Daemons
    BY <1>1 DEF IInv, Rest, nas
  <2>4. /\ answered' \in BOOLEAN /\ accepted' \in BOOLEAN /\ modified' \in BOOLEAN
        /\ (~accepted' => ~modified')
    BY <1>1 DEF IInv, Rest, nas
  <2> QED BY ONLY <1>2, <2>1, <2>2, <2>3, <2>4 DEF Rest
<1> QED BY <1>6, <1>7, <1>8, <1>9 DEF IInv

-----------------------------------------------------------------------------
LEMMA ReceiveStep == ASSUME IInv, Receive PROVE IInv'
<1>1. PICK d \in net : Handle(PeerOf(d.from), d.msg)
  BY DEF Receive
<1> DEFINE x == PeerOf(d.from)
           m == d.msg
<1>2. /\ d.from \in Xacts /\ m \in SaysOf(d.from) /\ net # {}
      /\ ~accepted => m # "reply"
      /\ Und => m \notin Answers
  BY DEF IInv, NetFine, FineD
<1>3. CASE d.from = Mme
  <2>1. x = S11 /\ m \in {"command", "reply", "error"} /\ x \in Xacts /\ x # Mme
        /\ x[1] = "s11" /\ SaysOf(x) = {"trigger", "failure"}
    BY <1>2, <1>3, Peers, Tables, Names, Fields
  <2>2. CASE m = "command"
    <3>1. Duplicate(x, {"trigger", "failure"}) \/ RefuseCommand(x) \/ ForwardCommand
      BY <1>1, <2>1, <2>2 DEF Handle, Answers
    <3>2. CASE Duplicate(x, {"trigger", "failure"})
      BY <2>1, <3>2, DuplicateStep DEF Duplicate, At
    <3>3. CASE RefuseCommand(x)
      BY <1>2, <2>1, <3>3, RefuseCommandStep
    <3>4. CASE ForwardCommand
      BY <1>2, <3>4, ForwardCommandStep
    <3> QED BY <3>1, <3>2, <3>3, <3>4
  <2>3. CASE m \in Answers
    <3>1. \/ At(x, {"trigger", "failure"}) /\ ForwardAnswer(x, m)
          \/ Stray(x)
      BY <1>1, <2>1, <2>3 DEF Handle, Answers
    <3>2. CASE At(x, {"trigger", "failure"}) /\ ForwardAnswer(x, m)
      BY <1>2, <2>1, <2>3, <3>2, ForwardAnswerStep, LegNames
    <3>3. CASE Stray(x)
      BY <1>2, <2>1, <2>3, <3>3, StrayStep
    <3> QED BY <3>1, <3>2, <3>3
  <2> QED BY <2>1, <2>2, <2>3 DEF Answers
<1>4. CASE d.from = S11
  <2>1. x = Mme /\ m \in {"trigger", "failure"} /\ x \in Xacts /\ x # S11
        /\ x[1] = "mme" /\ SaysOf(x) = {"command", "reply", "error"}
    BY <1>2, <1>4, Peers, Tables, Names, Fields
  <2>2. CASE m = "trigger"
    <3>1. Duplicate(x, Answers) \/ AskUe(x) \/ RejectRequest(x) \/ Stray(x)
      BY <1>1, <2>1, <2>2 DEF Handle, Answers
    <3>2. CASE Duplicate(x, Answers)
      BY <2>1, <3>2, DuplicateStep DEF Duplicate, At, Answers
    <3>3. CASE AskUe(x)
      BY <1>2, <2>1, <3>3, AskUeStep
    <3>4. CASE RejectRequest(x)
      BY <1>2, <2>1, <3>4, RejectRequestStep
    <3>5. CASE Stray(x)
      BY <2>1, <3>5, StrayStep
    <3> QED BY <3>1, <3>2, <3>3, <3>4, <3>5
  <2>3. CASE m = "failure"
    <3>1. Refused \/ Stray(x)
      BY <1>1, <2>1, <2>3 DEF Handle, Answers
    <3> QED BY <2>1, <3>1, RefusedStep, StrayStep
  <2> QED BY <2>1, <2>2, <2>3
<1>5. ASSUME NEW g \in Forwards, d.from = S5c(g) PROVE IInv'
  <2>1. x = Smf(g) /\ m \in {"command", "reply", "error"} /\ x \in Xacts /\ x # S11 /\ x # Mme
        /\ x[1] = "smf" /\ x[2] = g /\ SaysOf(x) = {"trigger", "failure"}
    BY <1>2, <1>5, Peers, Tables, Names, Fields
  <2>2. CASE m = "command"
    <3>1. Duplicate(x, {"trigger", "failure"}) \/ RefuseCommand(x) \/ ExecuteCommand(x)
      BY <1>1, <2>1, <2>2 DEF Handle, Answers
    <3>2. CASE Duplicate(x, {"trigger", "failure"})
      BY <2>1, <3>2, DuplicateStep DEF Duplicate, At
    <3>3. CASE RefuseCommand(x)
      BY <1>2, <2>1, <3>3, RefuseCommandStep
    <3>4. CASE ExecuteCommand(x)
      BY <1>2, <2>1, <3>4, ExecuteCommandStep
    <3> QED BY <3>1, <3>2, <3>3, <3>4
  <2>3. CASE m \in Answers
    <3>1. ModifyBearer(g, m) \/ Stray(x)
      BY <1>1, <2>1, <2>3 DEF Handle, Answers
    <3>2. CASE ModifyBearer(g, m)
      BY <1>2, <2>3, <3>2, ModifyBearerStep
    <3>3. CASE Stray(x)
      BY <2>1, <3>3, StrayStep
    <3> QED BY <3>1, <3>2, <3>3
  <2> QED BY <2>1, <2>2, <2>3 DEF Answers
<1>6. ASSUME NEW g \in Forwards, d.from = Smf(g) PROVE IInv'
  <2>1. x = S5c(g) /\ m \in {"trigger", "failure"} /\ x \in Xacts /\ x # S11 /\ x # Mme
        /\ x[1] = "s5c" /\ x[2] = g /\ SaysOf(x) = {"command", "reply", "error"}
    BY <1>2, <1>6, Peers, Tables, Names, Fields
  <2>2. CASE m = "trigger"
    <3>1. Duplicate(x, Answers) \/ ForwardTrigger(g) \/ RejectTrigger(g) \/ Stray(x)
      BY <1>1, <2>1, <2>2 DEF Handle, Answers
    <3>2. CASE Duplicate(x, Answers)
      BY <2>1, <3>2, DuplicateStep DEF Duplicate, At, Answers
    <3>3. CASE ForwardTrigger(g)
      BY <3>3, ForwardTriggerStep
    <3>4. CASE RejectTrigger(g)
      BY <3>4, RejectTriggerStep
    <3>5. CASE Stray(x)
      BY <2>1, <3>5, StrayStep
    <3> QED BY <3>1, <3>2, <3>3, <3>4, <3>5
  <2>3. CASE m = "failure"
    <3>1. ForwardFailure(g) \/ Stray(x)
      BY <1>1, <2>1, <2>3 DEF Handle, Answers
    <3> QED BY <2>1, <3>1, ForwardFailureStep, StrayStep
  <2> QED BY <2>1, <2>2, <2>3
<1>7. ASSUME NEW g \in Forwards, d.from = S11n(g) PROVE IInv'
  <2>1. x = Mmen(g) /\ m = "trigger" /\ x \in Xacts /\ x # S11 /\ x # Mme
        /\ x[1] = "mmen" /\ SaysOf(x) = {"reply", "error"}
    BY <1>2, <1>7, Peers, Tables, Names, Fields
  <2>2. Duplicate(x, Answers) \/ AskUe(x) \/ RejectRequest(x) \/ Stray(x)
    BY <1>1, <2>1 DEF Handle, Answers
  <2>3. CASE Duplicate(x, Answers)
    BY <2>1, <2>3, DuplicateStep DEF Duplicate, At, Answers
  <2>4. CASE AskUe(x)
    BY <1>2, <2>1, <2>4, AskUeStep
  <2>5. CASE RejectRequest(x)
    BY <1>2, <2>1, <2>5, RejectRequestStep
  <2>6. CASE Stray(x)
    BY <2>1, <2>6, StrayStep
  <2> QED BY <2>2, <2>3, <2>4, <2>5, <2>6
<1>8. ASSUME NEW g \in Forwards, d.from = Mmen(g) PROVE IInv'
  <2>1. x = S11n(g) /\ m \in {"reply", "error"} /\ x \in Xacts /\ x # S11 /\ x # Mme
        /\ x[1] = "s11n"
    BY <1>2, <1>8, Peers, Tables, Names, Fields
  <2>2. ForwardAnswer(x, m) \/ Stray(x)
    BY <1>1, <2>1 DEF Handle, Answers
  <2>3. CASE ForwardAnswer(x, m)
    BY <1>2, <2>1, <2>3, ForwardAnswerStep, LegNames DEF Answers
  <2>4. CASE Stray(x)
    BY <2>1, <2>4, StrayStep
  <2> QED BY <2>2, <2>3, <2>4
<1> QED BY <1>2, <1>3, <1>4, <1>5, <1>6, <1>7, <1>8, Kinds

LEMMA Initially == Init => IInv
<1> SUFFICES ASSUME Init PROVE IInv
  OBVIOUS
<1>1. /\ xact = [x \in Xacts |-> NULL] /\ assoc = [g \in Forwards |-> None]
      /\ forwards = 0 /\ net = {} /\ outcome = "idle" /\ answered = FALSE
      /\ update = None /\ asked = 0 /\ accepted = FALSE /\ modified = FALSE
      /\ down = {} /\ age = 0
  BY DEF Init
<1>2. XactsFine
  BY <1>1, NullFine DEF XactsFine
<1>3. NetFine
  BY <1>1 DEF NetFine
<1>4. Linked
  <2>1. \A x \in Xacts : ~Live(x)
    BY <1>1 DEF Live
  <2>2. \A g \in Forwards : assoc[g] = None /\ None # S11 /\ ~At(S5c(g), {"command"})
    BY <1>1, <2>1, Names DEF At
  <2>3. assoc \in [Forwards -> Legs \cup {None}]
    BY <1>1
  <2> QED BY <2>2, <2>3 DEF Linked, LegsAgree
<1>5. Rest
  <2>1. /\ answered \in BOOLEAN /\ accepted \in BOOLEAN /\ modified \in BOOLEAN
        /\ ~accepted => ~modified
    BY <1>1
  <2>2. /\ forwards \in 0 .. MaxForwards /\ asked \in 0 .. (MaxForwards + 1)
        /\ age \in 0 .. Patience /\ forwards <= 1 /\ forwards # 1
    BY <1>1, Numbers
  <2>3. /\ outcome \in {"idle", "pending", "timeout", "refused"} /\ down = {}
        /\ down \subseteq Daemons /\ (asked > 0 => update # None)
        /\ update \in {x \in Xacts : DaemonOf(x) = "mme"} \cup {None}
        /\ asked = 0 /\ net = {} /\ \A x \in Xacts : xact[x] = NULL
    BY <1>1
  <2> QED BY ONLY <2>1, <2>2, <2>3 DEF Rest
<1> QED BY <1>2, <1>3, <1>4, <1>5 DEF IInv

LEMMA Inductive == IInv /\ [Next]_vars => IInv'
<1> SUFFICES ASSUME IInv, [Next]_vars PROVE IInv'
  OBVIOUS
<1>1. CASE SendCommand
  BY <1>1, SendCommandStep
<1>2. ASSUME NEW x \in Xacts, Expire(x) PROVE IInv'
  BY <1>2, RetransmitStep, TimeoutStep, StaleTimerStep DEF Expire
<1>3. CASE Receive
  BY <1>3, ReceiveStep
<1>4. CASE UeAccepts
  BY <1>4, UeAcceptsStep
<1>5. CASE Tick
  BY <1>5, TickStep
<1>6. CASE UNCHANGED vars
  <2>1. UNCHANGED <<xact, assoc, forwards, net, outcome, answered, update, asked, accepted,
                    modified, down, age>>
    BY <1>6 DEF vars, nas
  <2>2. /\ XactsFine' <=> XactsFine
        /\ NetFine' <=> NetFine
    BY <2>1 DEF XactsFine, NetFine, Und
  <2>3. Linked' <=> Linked
    BY <2>1 DEF Linked, LegsAgree, At, Live, Und
  <2>4. Rest' <=> Rest
    BY <2>1 DEF Rest, Live, Und
  <2> QED BY <2>2, <2>3, <2>4 DEF IInv
<1> QED BY <1>1, <1>2, <1>3, <1>4, <1>5, <1>6 DEF Next

LEMMA Invariance == Spec => []IInv
  BY Initially, Inductive, PTL DEF Spec

-----------------------------------------------------------------------------
(* The type invariant: the timers, the counters and the datagrams of the   *)
(* three daemons (lib/gtp/xact.c) stay in their ranges.                    *)
THEOREM TypeCorrect == Spec => []TypeOK
<1>1. IInv => TypeOK
  <2> SUFFICES ASSUME IInv PROVE TypeOK
    OBVIOUS
  <2>1. /\ xact \in [Xacts -> Transaction \cup {NULL}]
        /\ assoc \in [Forwards -> Legs \cup {None}]
    BY DEF IInv, XactsFine, Linked
  <2>2. net \subseteq [from : Xacts, msg : Messages, ttl : 0 .. MaxDelay]
    BY DEF IInv, NetFine, FineD
  <2> QED BY <2>1, <2>2 DEF IInv, Rest, TypeOK
<1> QED BY <1>1, Invariance, PTL

(* assoc_xact never dangles and the two legs of the SGW-C are at the same  *)
(* step (sgwc/s5c-handler.c, sgwc/s11-handler.c), whatever is lost,        *)
(* repeated or overtaken.                                                  *)
THEOREM LegsAlwaysAgree == Spec => []LegsAgree
<1>1. IInv => LegsAgree
  BY DEF IInv, Linked
<1> QED BY <1>1, Invariance, PTL

(* Before an answer the SGW-C forwards the command once: response_timeout  *)
(* and holding_timeout (lib/gtp/xact.c) end no transaction of it sooner    *)
(* than the MME stops sending it.                                          *)
THEOREM CommandHeldUntilAnswered == Spec => []HeldUntilAnswered
<1>1. IInv => HeldUntilAnswered
  <2> SUFFICES ASSUME IInv, ~answered, age # Patience PROVE ~(forwards > 1)
    BY DEF HeldUntilAnswered, Late
  <2>1. forwards <= 1 /\ forwards \in 0 .. MaxForwards
    BY DEF IInv, Rest, Und
  <2> QED BY <2>1, Numbers
<1> QED BY <1>1, Invariance, PTL

(* No daemon stops on an assertion about the transaction of another leg    *)
(* before an answer, or before the MME stops sending the command.          *)
THEOREM NoEarlyAbort == Spec => []AbortsOnlyLate
<1>1. IInv => AbortsOnlyLate
  BY DEF IInv, Rest, Und, AbortsOnlyLate, Late
<1> QED BY <1>1, Invariance, PTL

(* The SMF modifies the bearer in the user plane only if the UE accepted   *)
(* the modification (smf_s5c_handle_update_bearer_response): the first     *)
(* half of ModifiedIfAccepted.                                             *)
THEOREM ModifiedOnlyIfAccepted == Spec => [](modified => accepted)
<1>1. IInv => (modified => accepted)
  BY DEF IInv, Rest
<1> QED BY <1>1, Invariance, PTL

=============================================================================
