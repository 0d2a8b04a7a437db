-------------------------- MODULE FrameStreamProofs --------------------------
(***************************************************************************)
(* For every set of pages and every story: a payload is never older than   *)
(* its version, a page is never shown a picture older than its version or  *)
(* an earlier version (the safety part of LiveView), and a handler with    *)
(* nothing left to do has its page show what the stream shows.             *)
(*                                                                         *)
(* The invariant says what each half of a delivery leaves true: how far    *)
(* the counter and the story are apart at each stage of the producer and   *)
(* of a clear (StageInv), what can be astray only once the two have met    *)
(* (MetInv), whose picture the last version is of while a frame is being   *)
(* encoded (VersionInv), how a handler's version and picture compare at    *)
(* each of its places, that a version some page still has to be woken for  *)
(* was encoded unless it could not be (BehindInv), and what a handler      *)
(* without a wake-up pending knows of a stream at rest (QuietInv).         *)
(***************************************************************************)
EXTENDS FrameStream, TLAPS

Shows(p) == Newest > 0 /\ story[Newest] \in p

\* Its picture is in the story and has no version yet.
Pending(w) == stage[w] \in {"dropping", "claiming"}

StageInv ==
    /\ stage["producer"] # "dropping"
    /\ stage["clear"] \notin {"counting", "encoding", "publishing"}
    /\ counter = Newest - (IF Pending("producer") THEN 1 ELSE 0) - (IF Pending("clear") THEN 1 ELSE 0)
    /\ stage["producer"] # "resting" =>
         place["producer"] > 0 /\ story[place["producer"]] \in {"frame", "refused"}
    /\ stage["clear"] # "resting" => place["clear"] > 0 /\ story[place["clear"]] = "none"

Alone(w) ==
    /\ stage[w] # "resting" => place[w] = Newest
    /\ stage[w] = "sending" => version[w] = counter

MetInv ==
    /\ met => \E i \in 1 .. Newest : story[i] = "none"
    /\ ~met =>
         /\ astray = {}
         /\ stage["producer"] = "resting" \/ stage["clear"] = "resting"
         /\ Alone("producer") /\ Alone("clear")
         /\ stage["producer"] = "resting" /\ stage["clear"] = "resting" => ready = counter

VersionInv ==
    stage["producer"] \in {"counting", "encoding"} =>
        /\ version["producer"] <= place["producer"] \/ version["producer"] \in astray
        /\ ~Pending("clear") /\ counter \notin astray =>
             IF version["producer"] = counter THEN place["producer"] = Newest
             ELSE Shows({"none"})

WriterInv == StageInv /\ MetInv /\ VersionInv

PayloadInv ==
    /\ PayloadIsNotOlder
    /\ payload.picture > 0 => payload.tag <= counter

OnDemand == {"asking", "looking", "queueing", "reading", "encoding"}
OnWake == {"watching", "matching", "holding"}

SocketInv(c) ==
    /\ seen[c] <= Newest /\ got[c] <= Newest /\ want[c] <= counter /\ last[c] <= counter
    /\ pc[c] = "away" => seen[c] = Blank
    /\ pc[c] \in OnDemand \cup {"away", "registering"} => last[c] = 0
    /\ pc[c] = "encoding" => got[c] > 0 /\ want[c] <= got[c] /\ story[got[c]] # "none"
    /\ pc[c] = "sending" =>
         /\ want[c] <= got[c] \/ want[c] \in astray
         /\ last[c] = 0 \/ last[c] < want[c]
    /\ pc[c] \in OnWake => seen[c] >= last[c] \/ last[c] \in astray
    /\ pc[c] \in {"matching", "holding"} => last[c] < want[c]

\* The version it will have been sent once its page is served.
Bound(c) == IF pc[c] \in OnWake THEN last[c] ELSE want[c]

\* Still to be served the version claimed last, and attached since before.
Behind(c) ==
    pc[c] \in OnWake \cup {"looking", "reading", "encoding", "sending"} /\ Bound(c) < counter

Covered ==
    \/ Shows({"refused", "none"})
    \/ payload.picture > 0 /\ payload.tag = counter

\* Every version is claimed, and encoded if it is to be.
Filed ==
    /\ stage["producer"] \notin {"claiming", "counting", "encoding"}
    /\ ~Pending("clear")

BehindInv ==
    Filed /\ counter \notin astray => \A c \in Client : Behind(c) => Covered

Quiet ==
    /\ stage["producer"] = "resting" /\ stage["clear"] = "resting"
    /\ ready = counter /\ counter \notin astray

QuietInv(c) ==
    Quiet /\ ~fresh[c] =>
        /\ pc[c] \in {"looking", "reading", "encoding", "matching"} => want[c] = Newest
        /\ pc[c] \in {"encoding", "sending"} => got[c] = Newest
        /\ pc[c] = "watching" => seen[c] = Newest \/ Shows({"refused"})
        /\ pc[c] = "holding" => Shows({"refused", "none"})

IInv ==
    /\ TypeOK /\ WriterInv /\ PayloadInv /\ BehindInv
    /\ \A c \in Client : SocketInv(c) /\ QuietInv(c)

-----------------------------------------------------------------------------
(* A story only grows: what it held it holds.                              *)
LEMMA Grows ==
    ASSUME NEW w \in Writer, NEW p \in {"frame", "refused", "none"}, TypeOK, Turn(w, p)
    PROVE  /\ story' \in Seq({"frame", "refused", "none"})
           /\ Newest' = Newest + 1 /\ Newest \in Nat
           /\ story'[Newest'] = p
           /\ \A i \in 1 .. Newest : story'[i] = story[i]
BY DEF TypeOK, Turn, Newest

(* The first state.                                                        *)
LEMMA Starts == Init => IInv
<1> SUFFICES ASSUME Init PROVE IInv
  OBVIOUS
<1>0. story \in Seq({"frame", "refused", "none"}) /\ Len(story) = 0
  BY DEF Init
<1>1. Newest = 0
  BY <1>0 DEF Newest
<1>2. TypeOK
  <2>1. stage \in [Writer -> Stages] /\ place \in [Writer -> 0 .. Newest] /\ version \in [Writer -> 0 .. counter]
    BY <1>1 DEF Init, Stages
  <2>2. payload \in [tag : Nat, picture : Nat] /\ lock \in Client \cup {Nobody}
    BY DEF Init, NoPayload
  <2>3. pc \in [Client -> Places] /\ seen \in [Client -> Nat \cup {Foreign}] /\ fresh \in [Client -> BOOLEAN]
    BY DEF Init, Places, Blank
  <2>4. want \in [Client -> Nat] /\ got \in [Client -> Nat] /\ last \in [Client -> Nat]
    BY DEF Init
  <2>5. counter \in 0 .. Newest /\ ready \in 0 .. counter /\ astray \subseteq 1 .. counter /\ met \in BOOLEAN
    <3>1. counter = 0 /\ ready = 0 /\ astray = {} /\ met \in BOOLEAN
      BY DEF Init
    <3>2. counter \in 0 .. Newest /\ ready \in 0 .. counter /\ astray \subseteq 1 .. counter
      BY <1>1, <3>1
    <3> QED
      BY <3>1, <3>2
  <2> QED
    BY <1>0, <2>1, <2>2, <2>3, <2>4, <2>5 DEF TypeOK
<1>3. WriterInv
  <2>1. /\ stage["producer"] = "resting" /\ stage["clear"] = "resting"
        /\ counter = 0 /\ ready = 0 /\ astray = {} /\ ~met
    BY DEF Init, Writer
  <2>2. StageInv
    <3>1. ~Pending("producer") /\ ~Pending("clear")
      BY <2>1 DEF Pending
    <3>2. counter = Newest /\ Newest \in Nat
      BY <1>1, <2>1
    <3>3. counter = Newest - (IF Pending("producer") THEN 1 ELSE 0) - (IF Pending("clear") THEN 1 ELSE 0)
      BY <3>1, <3>2
    <3> QED
      BY <2>1, <3>3 DEF StageInv
  <2>3. MetInv
    BY <2>1 DEF MetInv, Alone
  <2> QED
    BY <2>1, <2>2, <2>3 DEF WriterInv, VersionInv
<1>4. PayloadInv /\ BehindInv
  BY <1>1 DEF Init, PayloadInv, PayloadIsNotOlder, BehindInv, Behind, Bound, NoPayload, OnWake
<1>5. ASSUME NEW c \in Client PROVE SocketInv(c) /\ QuietInv(c)
  BY <1>1 DEF Init, SocketInv, QuietInv, Blank, OnDemand, OnWake
<1> QED
  BY <1>2, <1>3, <1>4, <1>5 DEF IInv

(* A picture more in the story moves no socket.                            *)
LEMMA SocketsKeep ==
    ASSUME IInv, NEW w \in Writer, NEW p \in {"frame", "refused", "none"}, Turn(w, p),
           UNCHANGED <<counter, astray, sockets>>, NEW c \in Client
    PROVE  SocketInv(c)'
<1>1. Newest' = Newest + 1 /\ Newest \in Nat /\ \A i \in 1 .. Newest : story'[i] = story[i]
  BY Grows DEF IInv
<1>2. UNCHANGED <<counter, astray, pc, want, got, last, seen>>
  BY DEF sockets
<1>3. SocketInv(c) /\ got[c] \in Nat /\ seen[c] \in Int
  BY DEF IInv, TypeOK, Foreign
<1>4. seen[c] <= Newest' /\ got[c] <= Newest'
  BY <1>1, <1>3 DEF SocketInv
<1>5. pc[c] = "encoding" => story'[got[c]] = story[got[c]]
  BY <1>1, <1>3 DEF SocketInv
<1> QED
  BY <1>2, <1>3, <1>4, <1>5 DEF SocketInv

(* Nor does it touch a payload.                                            *)
LEMMA PayloadKeeps ==
    ASSUME IInv, NEW w \in Writer, NEW p \in {"frame", "refused", "none"}, Turn(w, p),
           UNCHANGED <<counter, astray, payload>>
    PROVE  PayloadInv'
<1>1. Newest' = Newest + 1 /\ Newest \in Nat /\ \A i \in 1 .. Newest : story'[i] = story[i]
  BY Grows DEF IInv
<1>2. TypeOK /\ PayloadInv
  BY DEF IInv
<1> QED
  BY <1>1, <1>2 DEF TypeOK, PayloadInv, PayloadIsNotOlder

LEMMA SetLatestInv == ASSUME IInv, SetLatest PROVE IInv'
<1>1. PICK p \in {"frame", "refused"} : Turn("producer", p)
  BY DEF SetLatest
<1>2. /\ story' \in Seq({"frame", "refused", "none"})
      /\ Newest' = Newest + 1 /\ Newest \in Nat
      /\ story'[Newest'] = p
      /\ \A i \in 1 .. Newest : story'[i] = story[i]
  BY <1>1, Grows DEF IInv, Writer
<1>3. /\ stage["producer"] = "resting" /\ stage' = [stage EXCEPT !["producer"] = "claiming"]
      /\ place' = [place EXCEPT !["producer"] = Newest + 1]
      /\ met' = (met \/ stage["clear"] # "resting")
      /\ UNCHANGED <<counter, ready, version, astray, payload, lock, sockets>>
  BY <1>1 DEF SetLatest, StageIs, Turn, shared, Writer
<1>4. TypeOK /\ WriterInv
  BY DEF IInv
<1>5. stage'["producer"] = "claiming" /\ stage'["clear"] = stage["clear"]
  BY <1>3, <1>4 DEF TypeOK, Writer
<1>6. place'["producer"] = Newest + 1 /\ place'["clear"] = place["clear"]
  BY <1>3, <1>4 DEF TypeOK, Writer
<1>a. TypeOK'
  <2>1. stage' \in [Writer -> Stages] /\ place' \in [Writer -> 0 .. Newest']
    <3>1. place \in [Writer -> 0 .. Newest'] /\ Newest + 1 \in 0 .. Newest'
      BY <1>2, <1>4 DEF TypeOK
    <3>2. stage' \in [Writer -> Stages]
      BY <1>3, <1>4 DEF TypeOK, Stages
    <3> QED
      BY <1>3, <3>1, <3>2
  <2>2. counter' \in 0 .. Newest' /\ met' \in BOOLEAN
    BY <1>2, <1>3, <1>4 DEF TypeOK
  <2> QED
    BY <1>2, <1>3, <1>4, <2>1, <2>2 DEF TypeOK, sockets
<1>b. WriterInv'
  <2>1. StageInv'
    BY <1>2, <1>3, <1>4, <1>5, <1>6 DEF TypeOK, WriterInv, StageInv, Pending, Writer
  <2>2. MetInv'
    <3>1. met' => \E i \in 1 .. Newest' : story'[i] = "none"
      <4>1. met' => \E i \in 1 .. Newest : story[i] = "none"
        <5>1. stage["clear"] # "resting" => place["clear"] \in 1 .. Newest /\ story[place["clear"]] = "none"
          BY <1>4 DEF TypeOK, WriterInv, StageInv, Writer
        <5> QED
          BY <1>3, <1>4, <5>1 DEF WriterInv, MetInv
      <4> QED
        BY <1>2, <4>1
    <3>2. CASE ~met'
      BY <1>2, <1>3, <1>4, <1>5, <1>6, <3>2 DEF WriterInv, MetInv, Alone
    <3> QED
      BY <3>1, <3>2 DEF MetInv
  <2>3. VersionInv'
    BY <1>5 DEF VersionInv
  <2> QED
    BY <2>1, <2>2, <2>3 DEF WriterInv
<1>c. PayloadInv'
  BY <1>1, <1>3, PayloadKeeps DEF Writer
<1>d. BehindInv'
  BY <1>5 DEF BehindInv, Filed
<1>e. ASSUME NEW c \in Client PROVE SocketInv(c)'
  BY <1>1, <1>3, SocketsKeep DEF Writer
<1>f. ASSUME NEW c \in Client PROVE QuietInv(c)'
  BY <1>5 DEF QuietInv, Quiet
<1> QED
  BY <1>a, <1>b, <1>c, <1>d, <1>e, <1>f DEF IInv

LEMMA ClearInv == ASSUME IInv, Clear PROVE IInv'
<1>1. Turn("clear", "none")
  BY DEF Clear
<1>2. /\ story' \in Seq({"frame", "refused", "none"})
      /\ Newest' = Newest + 1 /\ Newest \in Nat
      /\ story'[Newest'] = "none"
      /\ \A i \in 1 .. Newest : story'[i] = story[i]
  BY <1>1, Grows DEF IInv, Writer
<1>3. /\ stage["clear"] = "resting" /\ stage' = [stage EXCEPT !["clear"] = "dropping"]
      /\ place' = [place EXCEPT !["clear"] = Newest + 1]
      /\ met' = (met \/ stage["producer"] # "resting")
      /\ UNCHANGED <<counter, ready, version, astray, payload, lock, sockets>>
  BY <1>1 DEF Clear, StageIs, Turn, shared, Writer
<1>4. TypeOK /\ WriterInv
  BY DEF IInv
<1>5. stage'["clear"] = "dropping" /\ stage'["producer"] = stage["producer"]
  BY <1>3, <1>4 DEF TypeOK, Writer
<1>6. place'["clear"] = Newest + 1 /\ place'["producer"] = place["producer"]
  BY <1>3, <1>4 DEF TypeOK, Writer
<1>a. TypeOK'
  <2>1. stage' \in [Writer -> Stages] /\ place' \in [Writer -> 0 .. Newest']
    <3>1. place \in [Writer -> 0 .. Newest'] /\ Newest + 1 \in 0 .. Newest'
      BY <1>2, <1>4 DEF TypeOK
    <3>2. stage' \in [Writer -> Stages]
      BY <1>3, <1>4 DEF TypeOK, Stages
    <3> QED
      BY <1>3, <3>1, <3>2
  <2>2. counter' \in 0 .. Newest' /\ met' \in BOOLEAN
    BY <1>2, <1>3, <1>4 DEF TypeOK
  <2> QED
    BY <1>2, <1>3, <1>4, <2>1, <2>2 DEF TypeOK, sockets
<1>b. WriterInv'
  <2>1. StageInv'
    BY <1>2, <1>3, <1>4, <1>5, <1>6 DEF TypeOK, WriterInv, StageInv, Pending, Writer
  <2>2. MetInv'
    <3>1. met' => \E i \in 1 .. Newest' : story'[i] = "none"
      <4>1. Newest' \in 1 .. Newest'
        BY <1>2
      <4> QED
        BY <1>2, <4>1
    <3>2. CASE ~met'
      BY <1>2, <1>3, <1>4, <1>5, <1>6, <3>2 DEF WriterInv, MetInv, Alone
    <3> QED
      BY <3>1, <3>2 DEF MetInv
  <2>3. VersionInv'
    BY <1>3, <1>4, <1>5, <1>6 DEF TypeOK, WriterInv, VersionInv, Pending, Writer
  <2> QED
    BY <2>1, <2>2, <2>3 DEF WriterInv
<1>c. PayloadInv'
  BY <1>1, <1>3, PayloadKeeps DEF Writer
<1>d. BehindInv'
  BY <1>5 DEF BehindInv, Filed, Pending
<1>e. ASSUME NEW c \in Client PROVE SocketInv(c)'
  BY <1>1, <1>3, SocketsKeep DEF Writer
<1>f. ASSUME NEW c \in Client PROVE QuietInv(c)'
  BY <1>5 DEF QuietInv, Quiet
<1> QED
  BY <1>a, <1>b, <1>c, <1>d, <1>e, <1>f DEF IInv

(* A version claimed for the newest picture is no later than the picture;  *)
(* for another it is astray.                                               *)
LEMMA BeginFrameInv == ASSUME IInv, NEW w \in Writer, BeginFrame(w) PROVE IInv'
<1>1. /\ stage[w] = "claiming"
      /\ stage' = [stage EXCEPT ![w] = IF w = "clear" THEN "sending" ELSE "counting"]
      /\ counter' = counter + 1
      /\ version' = [version EXCEPT ![w] = counter + 1]
      /\ astray' = IF place[w] = Newest THEN astray ELSE astray \cup {counter + 1}
      /\ UNCHANGED <<story, ready, place, met, payload, lock, pc, fresh, want, got, last, seen>>
  BY DEF BeginFrame, StageIs, shared, sockets
<1>2. TypeOK /\ StageInv /\ MetInv /\ VersionInv /\ PayloadInv
  BY DEF IInv, WriterInv
<1>3. Newest \in Nat /\ counter \in Nat /\ Newest' = Newest
  BY <1>1, <1>2 DEF TypeOK, Newest
<1>4. counter + 1 <= Newest
  BY <1>1, <1>2, <1>3 DEF StageInv, Pending, Writer
<1>5. astray \subseteq astray' /\ astray' \subseteq 1 .. counter'
  BY <1>1, <1>2, <1>3 DEF TypeOK
<1>6. /\ w = "clear" => stage'["clear"] = "sending" /\ stage'["producer"] = stage["producer"]
                        /\ version'["clear"] = counter' /\ version'["producer"] = version["producer"]
      /\ w = "producer" => stage'["producer"] = "counting" /\ stage'["clear"] = stage["clear"]
                        /\ version'["producer"] = counter' /\ version'["clear"] = version["clear"]
  BY <1>1, <1>2 DEF TypeOK, Writer
<1>a. TypeOK'
  <2>1. stage' \in [Writer -> Stages] /\ version' \in [Writer -> 0 .. counter']
    BY <1>1, <1>2, <1>3 DEF TypeOK, Writer, Stages
  <2>2. counter' \in 0 .. Newest' /\ ready' \in 0 .. counter'
    BY <1>1, <1>2, <1>3, <1>4 DEF TypeOK
  <2> QED
    BY <1>1, <1>2, <1>3, <1>5, <2>1, <2>2 DEF TypeOK
<1>b. WriterInv'
  <2>1. StageInv'
    BY <1>1, <1>2, <1>3, <1>6 DEF StageInv, Pending, Writer
  <2>2. MetInv'
    <3>1. met' => \E i \in 1 .. Newest' : story'[i] = "none"
      BY <1>1, <1>2, <1>3 DEF MetInv
    <3>2. CASE ~met
      BY <1>1, <1>2, <1>3, <1>6, <3>2 DEF MetInv, Alone, Writer
    <3> QED
      BY <1>1, <3>1, <3>2 DEF MetInv
  <2>3. VersionInv'
    <3>1. CASE w = "producer"
      BY <1>1, <1>3, <1>4, <1>5, <1>6, <3>1 DEF VersionInv
    <3>2. CASE w = "clear"
      <4>1. version["producer"] <= counter
        BY <1>2, <1>3 DEF TypeOK, Writer
      <4>2. version["producer"] # counter'
        BY <1>1, <1>3, <4>1, <1>2 DEF TypeOK, Writer
      <4>3. counter' \notin astray' => Shows({"none"})'
        BY <1>1, <1>2, <1>3, <1>4, <3>2 DEF StageInv, Shows
      <4> QED
        BY <1>1, <1>2, <1>5, <1>6, <3>2, <4>2, <4>3 DEF VersionInv
    <3> QED
      BY <3>1, <3>2 DEF Writer
  <2> QED
    BY <2>1, <2>2, <2>3 DEF WriterInv
<1>c. PayloadInv'
  BY <1>1, <1>2, <1>3, <1>5 DEF TypeOK, PayloadInv, PayloadIsNotOlder
<1>d. BehindInv'
  <2>1. CASE w = "producer"
    BY <1>6, <2>1 DEF BehindInv, Filed
  <2>2. CASE w = "clear"
    <3>1. counter' \notin astray' => Shows({"none"})'
      BY <1>1, <1>2, <1>3, <1>4, <2>2 DEF StageInv, Shows
    <3> QED
      BY <3>1 DEF BehindInv, Covered, Shows
  <2> QED
    BY <2>1, <2>2 DEF Writer
<1>e. ASSUME NEW c \in Client PROVE SocketInv(c)'
  <2>1. SocketInv(c) /\ want[c] \in Nat /\ last[c] \in Nat
    BY <1>2 DEF IInv, TypeOK
  <2> QED
    BY <1>1, <1>3, <1>5, <2>1 DEF SocketInv
<1>f. ASSUME NEW c \in Client PROVE QuietInv(c)'
  BY <1>1, <1>2, <1>3, <1>4 DEF QuietInv, Quiet, TypeOK
<1> QED
  BY <1>a, <1>b, <1>c, <1>d, <1>e, <1>f DEF IInv

LEMMA CountInv == ASSUME IInv, Count PROVE IInv'
<1>1. /\ stage["producer"] = "counting"
      /\ \/ stage' = [stage EXCEPT !["producer"] = "encoding"]
         \/ stage' = [stage EXCEPT !["producer"] = "publishing"] /\ Watchers = {}
      /\ UNCHANGED <<story, counter, ready, place, version, astray, met, payload, lock,
                     pc, fresh, want, got, last, seen>>
  BY DEF Count, StageIs, shared, sockets
<1>2. TypeOK /\ StageInv /\ MetInv /\ VersionInv /\ PayloadInv
  BY DEF IInv, WriterInv
<1>3. /\ stage'["clear"] = stage["clear"]
      /\ stage'["producer"] = "encoding" \/ (stage'["producer"] = "publishing" /\ Watchers = {})
  <2>1. stage \in [Writer -> Stages] /\ "producer" \in Writer /\ "clear" \in Writer
    BY <1>2 DEF TypeOK, Writer
  <2> QED
    BY <1>1, <2>1
<1>4. Newest' = Newest
  BY <1>1 DEF Newest
<1>a. TypeOK'
  BY <1>1, <1>2, <1>3, <1>4 DEF TypeOK, Stages
<1>b. WriterInv'
  BY <1>1, <1>2, <1>3, <1>4 DEF WriterInv, StageInv, MetInv, VersionInv, Alone, Pending, Shows
<1>c. PayloadInv'
  BY <1>1, <1>2, <1>3, <1>4 DEF PayloadInv, PayloadIsNotOlder
<1>d. BehindInv'
  BY <1>1, <1>3 DEF BehindInv, Filed, Behind, Watchers, OnWake
<1>e. ASSUME NEW c \in Client PROVE SocketInv(c)'
  BY <1>1, <1>3, <1>4 DEF IInv, SocketInv
<1>f. ASSUME NEW c \in Client PROVE QuietInv(c)'
  BY <1>3 DEF QuietInv, Quiet
<1> QED
  BY <1>a, <1>b, <1>c, <1>d, <1>e, <1>f DEF IInv

(* The frame is filed under its version, and where that is the last one    *)
(* claimed, it is the newest picture's.                                    *)
LEMMA EncodeFamilyInv == ASSUME IInv, EncodeFamily PROVE IInv'
<1>1. /\ stage["producer"] = "encoding" /\ stage' = [stage EXCEPT !["producer"] = "publishing"]
      /\ IF story[place["producer"]] = "refused" THEN UNCHANGED payload
           ELSE Stored(version["producer"], place["producer"])
      /\ UNCHANGED <<story, counter, ready, place, version, astray, met, lock,
                     pc, fresh, want, got, last, seen>>
  BY DEF EncodeFamily, StageIs, sockets
<1>2. TypeOK /\ StageInv /\ MetInv /\ VersionInv /\ PayloadInv
  BY DEF IInv, WriterInv
<1>3. stage'["clear"] = stage["clear"] /\ stage'["producer"] = "publishing" /\ Newest' = Newest
  BY <1>1, <1>2 DEF TypeOK, Writer, Newest
<1>4. /\ version["producer"] \in 0 .. counter /\ counter \in Nat /\ Newest \in Nat
      /\ place["producer"] \in 1 .. Newest
      /\ story[place["producer"]] \in {"frame", "refused"}
  <2>1. Newest \in Nat /\ counter \in Nat
    BY <1>2 DEF TypeOK, Newest
  <2>2. version["producer"] \in 0 .. counter /\ place["producer"] \in 0 .. Newest
    BY <1>2 DEF TypeOK, Writer
  <2> QED
    BY <1>1, <1>2, <2>1, <2>2 DEF StageInv
<1>5. payload' = payload \/ /\ payload' = [tag |-> version["producer"], picture |-> place["producer"]]
                            /\ story[place["producer"]] = "frame"
  BY <1>1, <1>4 DEF Stored
<1>a. TypeOK'
  <2>1. payload' \in [tag : Nat, picture : Nat]
    BY <1>2, <1>4, <1>5 DEF TypeOK
  <2> QED
    BY <1>1, <1>2, <1>3, <2>1 DEF TypeOK, Stages
<1>b. WriterInv'
  BY <1>1, <1>2, <1>3 DEF WriterInv, StageInv, MetInv, VersionInv, Alone, Pending
<1>c. PayloadInv'
  BY <1>1, <1>2, <1>3, <1>4, <1>5 DEF TypeOK, PayloadInv, PayloadIsNotOlder, VersionInv
<1>d. BehindInv'
  <2>1. SUFFICES ASSUME ~Pending("clear"), counter \notin astray PROVE Covered'
    BY <1>1, <1>3 DEF BehindInv, Filed, Pending
  <2>2. CASE version["producer"] # counter
    BY <1>1, <1>2, <1>3, <2>1, <2>2 DEF VersionInv, Covered, Shows
  <2>3. CASE version["producer"] = counter /\ story[place["producer"]] = "refused"
    BY <1>1, <1>2, <1>3, <1>4, <2>1, <2>3 DEF VersionInv, Covered, Shows
  <2>4. CASE version["producer"] = counter /\ story[place["producer"]] # "refused"
    <3>1. payload.picture > 0 => payload.tag <= counter
      BY <1>2 DEF PayloadInv
    <3>2. payload.tag \in Nat
      BY <1>2 DEF TypeOK
    <3>3. payload' = [tag |-> counter, picture |-> place["producer"]]
      BY <1>1, <1>4, <2>4, <3>1, <3>2 DEF Stored
    <3> QED
      BY <1>1, <1>4, <3>3 DEF Covered
  <2> QED
    BY <2>2, <2>3, <2>4
<1>e. ASSUME NEW c \in Client PROVE SocketInv(c)'
  BY <1>1, <1>3 DEF IInv, SocketInv
<1>f. ASSUME NEW c \in Client PROVE QuietInv(c)'
  BY <1>3 DEF QuietInv, Quiet
<1> QED
  BY <1>a, <1>b, <1>c, <1>d, <1>e, <1>f DEF IInv

LEMMA PublishFrameInv == ASSUME IInv, PublishFrame PROVE IInv'
<1>1. /\ stage["producer"] = "publishing" /\ stage' = [stage EXCEPT !["producer"] = "sending"]
      /\ version' = [version EXCEPT !["producer"] = counter]
      /\ UNCHANGED <<story, counter, ready, place, astray, met, payload, lock,
                     pc, fresh, want, got, last, seen>>
  BY DEF PublishFrame, StageIs, shared, sockets
<1>2. TypeOK /\ StageInv /\ MetInv /\ VersionInv /\ PayloadInv /\ BehindInv
  BY DEF IInv, WriterInv
<1>3. /\ stage'["clear"] = stage["clear"] /\ stage'["producer"] = "sending" /\ Newest' = Newest
      /\ version'["producer"] = counter /\ version'["clear"] = version["clear"]
  BY <1>1, <1>2 DEF TypeOK, Writer, Newest
<1>a. TypeOK'
  <2>0. counter \in 0 .. counter
    BY <1>2 DEF TypeOK, Newest
  <2>1. stage' \in [Writer -> Stages] /\ version' \in [Writer -> 0 .. counter]
    BY <1>1, <1>2, <2>0 DEF TypeOK, Stages
  <2> QED
    BY <1>1, <1>2, <1>3, <2>1 DEF TypeOK
<1>b. WriterInv'
  BY <1>1, <1>2, <1>3 DEF WriterInv, StageInv, MetInv, VersionInv, Alone, Pending
<1>c. PayloadInv'
  BY <1>1, <1>2, <1>3 DEF PayloadInv, PayloadIsNotOlder
<1>d. BehindInv'
  BY <1>1, <1>2, <1>3 DEF BehindInv, Filed, Pending, Behind, Bound, Covered, Shows
<1>e. ASSUME NEW c \in Client PROVE SocketInv(c)'
  BY <1>1, <1>3 DEF IInv, SocketInv
<1>f. ASSUME NEW c \in Client PROVE QuietInv(c)'
  BY <1>3 DEF QuietInv, Quiet
<1> QED
  BY <1>a, <1>b, <1>c, <1>d, <1>e, <1>f DEF IInv

(* Whoever is attached has a wake-up to come, so nothing is asked of them. *)
LEMMA SendInv == ASSUME IInv, NEW w \in Writer, Send(w) PROVE IInv'
<1>1. /\ stage[w] = "sending" /\ stage' = [stage EXCEPT ![w] = "resting"]
      /\ ready' = version[w]
      /\ fresh' = [c \in Client |-> fresh[c] \/ pc[c] \notin {"away", "registering"}]
      /\ place' = [place EXCEPT ![w] = 0] /\ version' = [version EXCEPT ![w] = 0]
      /\ UNCHANGED <<story, counter, astray, met, payload, lock, pc, want, got, last, seen>>
  BY DEF Send, StageIs, Wakes, shared
<1>2. TypeOK /\ StageInv /\ MetInv /\ VersionInv /\ PayloadInv /\ BehindInv
  BY DEF IInv, WriterInv
<1>3. /\ stage'[w] = "resting" /\ Newest' = Newest
      /\ \A o \in Writer \ {w} : stage'[o] = stage[o] /\ place'[o] = place[o] /\ version'[o] = version[o]
  BY <1>1, <1>2 DEF TypeOK, Newest
<1>4. "producer" \in Writer /\ "clear" \in Writer /\ (w = "producer" \/ w = "clear")
  BY DEF Writer
<1>a. TypeOK'
  <2>1. stage' \in [Writer -> Stages] /\ version' \in [Writer -> 0 .. counter] /\ ready' \in 0 .. counter
    BY <1>1, <1>2 DEF TypeOK, Stages
  <2>2. place' \in [Writer -> 0 .. Newest] /\ fresh' \in [Client -> BOOLEAN]
    BY <1>1, <1>2 DEF TypeOK, Newest
  <2> QED
    BY <1>1, <1>2, <1>3, <2>1, <2>2 DEF TypeOK
<1>b. WriterInv'
  <2>1. StageInv'
    BY <1>1, <1>2, <1>3, <1>4 DEF StageInv, Pending
  <2>2. MetInv'
    BY <1>1, <1>2, <1>3, <1>4 DEF MetInv, Alone
  <2>3. VersionInv'
    BY <1>1, <1>2, <1>3, <1>4 DEF VersionInv, Pending, Shows
  <2> QED
    BY <2>1, <2>2, <2>3 DEF WriterInv
<1>c. PayloadInv'
  BY <1>1, <1>2, <1>3 DEF PayloadInv, PayloadIsNotOlder
<1>d. BehindInv'
  <2>1. Filed' => Filed
    BY <1>1, <1>3, <1>4 DEF Filed, Pending
  <2> QED
    BY <1>1, <1>2, <1>3, <2>1 DEF BehindInv, Behind, Bound, Covered, Shows
<1>e. ASSUME NEW c \in Client PROVE SocketInv(c)'
  BY <1>1, <1>3 DEF IInv, SocketInv
<1>f. ASSUME NEW c \in Client PROVE QuietInv(c)'
  <2>1. ~fresh'[c] => pc'[c] \in {"away", "registering"}
    BY <1>1
  <2> QED
    BY <2>1 DEF QuietInv
<1> QED
  BY <1>a, <1>b, <1>c, <1>d, <1>e, <1>f DEF IInv

LEMMA DropPayloadInv == ASSUME IInv, DropPayload PROVE IInv'
<1>1. /\ stage["clear"] = "dropping" /\ stage' = [stage EXCEPT !["clear"] = "claiming"]
      /\ payload' = NoPayload
      /\ UNCHANGED <<story, counter, ready, place, version, astray, met, lock,
                     pc, fresh, want, got, last, seen>>
  BY DEF DropPayload, StageIs, sockets
<1>2. TypeOK /\ StageInv /\ MetInv /\ VersionInv
  BY DEF IInv, WriterInv
<1>3. stage'["producer"] = stage["producer"] /\ stage'["clear"] = "claiming" /\ Newest' = Newest
  BY <1>1, <1>2 DEF TypeOK, Writer, Newest
<1>a. TypeOK'
  BY <1>1, <1>2, <1>3 DEF TypeOK, Stages, NoPayload
<1>b. WriterInv'
  BY <1>1, <1>2, <1>3 DEF WriterInv, StageInv, MetInv, VersionInv, Alone, Pending
<1>c. PayloadInv'
  BY <1>1 DEF PayloadInv, PayloadIsNotOlder, NoPayload
<1>d. BehindInv'
  BY <1>3 DEF BehindInv, Filed, Pending
<1>e. ASSUME NEW c \in Client PROVE SocketInv(c)'
  BY <1>1, <1>3 DEF IInv, SocketInv
<1>f. ASSUME NEW c \in Client PROVE QuietInv(c)'
  BY <1>3 DEF QuietInv, Quiet
<1> QED
  BY <1>a, <1>b, <1>c, <1>d, <1>e, <1>f DEF IInv

-----------------------------------------------------------------------------
(* A step of a handler leaves the producer and the clear alone.            *)
LEMMA WriterStays == ASSUME WriterInv, UNCHANGED producer PROVE WriterInv'
BY DEF WriterInv, StageInv, MetInv, VersionInv, Alone, Pending, Shows, Newest, producer, writers

(* And no page is more behind than it was.                                 *)
LEMMA BehindStays ==
    ASSUME BehindInv, UNCHANGED <<producer, payload>>, \A c \in Client : Behind(c)' => Behind(c)
    PROVE  BehindInv'
<1>1. Covered <=> Covered'
  BY DEF Covered, Shows, Newest, producer
<1>2. Filed <=> Filed'
  BY DEF Filed, Pending, producer, writers
<1> QED
  BY <1>1, <1>2 DEF BehindInv, producer, writers

(* Nor does it disturb what is known of the other handlers.                *)
LEMMA OtherStays ==
    ASSUME NEW c \in Client, QuietInv(c), UNCHANGED producer,
           <<pc[c], fresh[c], want[c], got[c], seen[c]>>' = <<pc[c], fresh[c], want[c], got[c], seen[c]>>
    PROVE  QuietInv(c)'
BY DEF QuietInv, Quiet, Shows, Newest, producer, writers

(* At rest and in order the last version is out, and what is filed under   *)
(* it is the newest picture.                                               *)
LEMMA AtRest ==
    ASSUME IInv, Quiet
    PROVE  /\ counter = Newest /\ ready = Newest /\ Newest \in Nat /\ Filed
           /\ payload.picture > 0 /\ payload.tag = Newest => payload.picture = Newest
<1>1. TypeOK /\ StageInv /\ PayloadInv
  BY DEF IInv, WriterInv
<1>2. counter = Newest /\ ready = Newest /\ Newest \in Nat
  BY <1>1 DEF Quiet, StageInv, Pending, TypeOK, Newest
<1>3. payload.picture \in Nat /\ payload.tag \in Nat
  BY <1>1 DEF TypeOK
<1> QED
  BY <1>1, <1>2, <1>3 DEF Quiet, Filed, Pending, PayloadInv, PayloadIsNotOlder

LEMMA ConnectInv == ASSUME IInv, NEW d \in Client, Connect(d) PROVE IInv'
<1>a. TypeOK'
  BY ClientAssumption DEF IInv, TypeOK, SocketInv, Connect, Goto, producer, writers, shared, Newest, Places, Foreign, Blank
<1>b. WriterInv'
  BY WriterStays DEF IInv, Connect
<1>c. PayloadInv'
  BY DEF IInv, TypeOK, PayloadInv, PayloadIsNotOlder, SocketInv, Connect, producer, writers, shared, Newest
<1>d. BehindInv'
  <2>1. UNCHANGED <<producer, payload>> /\ BehindInv /\ TypeOK /\ SocketInv(d)
    BY DEF Connect, IInv, shared
  <2>2. \A c \in Client : Behind(c)' => Behind(c)
    BY <2>1 DEF Connect, Goto, TypeOK, SocketInv, Behind, Bound, producer, OnWake
  <2> QED
    BY <2>1, <2>2, BehindStays
<1>e. ASSUME NEW c \in Client PROVE SocketInv(c)'
  BY DEF IInv, TypeOK, PayloadInv, PayloadIsNotOlder, SocketInv, Connect, Goto, producer, writers, shared, Newest, OnWake, OnDemand, Blank, Foreign
<1>f. ASSUME NEW c \in Client PROVE QuietInv(c)'
  BY DEF IInv, TypeOK, WriterInv, StageInv, PayloadInv, PayloadIsNotOlder, BehindInv, SocketInv, QuietInv, Quiet, Pending, Behind, Bound, Covered, Connect, Goto, producer, writers, shared, Newest, Shows, OnWake, OnDemand
<1> QED
  BY <1>a, <1>b, <1>c, <1>d, <1>e, <1>f DEF IInv

LEMMA SwitchHereInv == ASSUME IInv, NEW d \in Client, SwitchHere(d) PROVE IInv'
<1>a. TypeOK'
  BY ClientAssumption DEF IInv, TypeOK, SocketInv, SwitchHere, Goto, producer, writers, shared, Newest, Places, Foreign, Blank
<1>b. WriterInv'
  BY WriterStays DEF IInv, SwitchHere
<1>c. PayloadInv'
  BY DEF IInv, TypeOK, PayloadInv, PayloadIsNotOlder, SocketInv, SwitchHere, producer, writers, shared, Newest
<1>d. BehindInv'
  <2>1. UNCHANGED <<producer, payload>> /\ BehindInv /\ TypeOK /\ SocketInv(d)
    BY DEF SwitchHere, IInv, shared
  <2>2. \A c \in Client : Behind(c)' => Behind(c)
    BY <2>1 DEF SwitchHere, Goto, TypeOK, SocketInv, Behind, Bound, producer, OnWake
  <2> QED
    BY <2>1, <2>2, BehindStays
<1>e. ASSUME NEW c \in Client PROVE SocketInv(c)'
  BY DEF IInv, TypeOK, PayloadInv, PayloadIsNotOlder, SocketInv, SwitchHere, Goto, producer, writers, shared, Newest, OnWake, OnDemand, Blank, Foreign
<1>f. ASSUME NEW c \in Client PROVE QuietInv(c)'
  BY DEF IInv, TypeOK, WriterInv, StageInv, PayloadInv, PayloadIsNotOlder, BehindInv, SocketInv, QuietInv, Quiet, Pending, Behind, Bound, Covered, SwitchHere, Goto, producer, writers, shared, Newest, Shows, OnWake, OnDemand
<1> QED
  BY <1>a, <1>b, <1>c, <1>d, <1>e, <1>f DEF IInv

LEMMA SubscribeInv == ASSUME IInv, NEW d \in Client, Subscribe(d) PROVE IInv'
<1>a. TypeOK'
  BY ClientAssumption DEF IInv, TypeOK, SocketInv, Subscribe, Goto, producer, writers, shared, Newest, Places, Foreign, Blank
<1>b. WriterInv'
  BY WriterStays DEF IInv, Subscribe
<1>c. PayloadInv'
  BY DEF IInv, TypeOK, PayloadInv, PayloadIsNotOlder, SocketInv, Subscribe, producer, writers, shared, Newest
<1>d. BehindInv'
  <2>1. UNCHANGED <<producer, payload>> /\ BehindInv /\ TypeOK /\ SocketInv(d)
    BY DEF Subscribe, IInv, shared
  <2>2. \A c \in Client : Behind(c)' => Behind(c)
    BY <2>1 DEF Subscribe, Goto, TypeOK, SocketInv, Behind, Bound, producer, OnWake
  <2> QED
    BY <2>1, <2>2, BehindStays
<1>e. ASSUME NEW c \in Client PROVE SocketInv(c)'
  BY DEF IInv, TypeOK, PayloadInv, PayloadIsNotOlder, SocketInv, Subscribe, Goto, producer, writers, shared, Newest, OnWake, OnDemand, Blank, Foreign
<1>f. ASSUME NEW c \in Client PROVE QuietInv(c)'
  BY DEF IInv, TypeOK, WriterInv, StageInv, PayloadInv, PayloadIsNotOlder, BehindInv, SocketInv, QuietInv, Quiet, Pending, Behind, Bound, Covered, Subscribe, Goto, producer, writers, shared, Newest, Shows, OnWake, OnDemand
<1> QED
  BY <1>a, <1>b, <1>c, <1>d, <1>e, <1>f DEF IInv

LEMMA AskInv == ASSUME IInv, NEW d \in Client, Ask(d) PROVE IInv'
<1>a. TypeOK'
  BY ClientAssumption DEF IInv, TypeOK, SocketInv, Ask, Goto, producer, writers, shared, Newest, Places, Foreign, Blank
<1>b. WriterInv'
  BY WriterStays DEF IInv, Ask
<1>c. PayloadInv'
  BY DEF IInv, TypeOK, PayloadInv, PayloadIsNotOlder, SocketInv, Ask, producer, writers, shared, Newest
<1>d. BehindInv'
  <2>1. UNCHANGED <<producer, payload>> /\ BehindInv /\ TypeOK /\ SocketInv(d)
    BY DEF Ask, IInv, shared
  <2>2. \A c \in Client : Behind(c)' => Behind(c)
    BY <2>1 DEF Ask, Goto, TypeOK, SocketInv, Behind, Bound, producer, OnWake
  <2> QED
    BY <2>1, <2>2, BehindStays
<1>e. ASSUME NEW c \in Client PROVE SocketInv(c)'
  BY DEF IInv, TypeOK, PayloadInv, PayloadIsNotOlder, SocketInv, Ask, Goto, producer, writers, shared, Newest, OnWake, OnDemand, Blank, Foreign
<1>f. ASSUME NEW c \in Client PROVE QuietInv(c)'
  <2>1. CASE c # d
    BY <2>1, OtherStays DEF IInv, TypeOK, Ask, Goto
  <2>2. SUFFICES ASSUME c = d, Quiet', ~fresh'[d] PROVE QuietInv(d)'
    BY <2>1 DEF QuietInv
  <2>3. UNCHANGED producer /\ Quiet /\ Newest' = Newest /\ TypeOK /\ SocketInv(d) /\ QuietInv(d) /\ BehindInv
    BY <2>2 DEF Ask, Quiet, producer, writers, Newest, IInv
  <2>4. /\ counter = Newest /\ ready = Newest /\ Newest \in Nat /\ Filed
        /\ payload.picture > 0 /\ payload.tag = Newest => payload.picture = Newest
    BY <2>3, AtRest
  <2> QED
    BY <2>3, <2>4 DEF Ask, Goto, QuietInv, TypeOK
<1> QED
  BY <1>a, <1>b, <1>c, <1>d, <1>e, <1>f DEF IInv

LEMMA LookInv == ASSUME IInv, NEW d \in Client, Look(d) PROVE IInv'
<1>a. TypeOK'
  <2>0. TypeOK /\ UNCHANGED <<producer, payload, fresh, last, seen>>
    BY DEF IInv, Look
  <2>1. pc' \in [Client -> Places]
    BY <2>0 DEF TypeOK, Look, Goto, Places
  <2>2. want' \in [Client -> Nat] /\ got' \in [Client -> Nat]
    <3>1. payload.picture \in Nat /\ want \in [Client -> Nat] /\ got \in [Client -> Nat]
      BY <2>0 DEF TypeOK
    <3>2. want' \in {want, [want EXCEPT ![d] = 0]}
      BY DEF Look
    <3>3. got' \in {got, [got EXCEPT ![d] = payload.picture]}
      BY DEF Look
    <3> QED
      BY <3>1, <3>2, <3>3
  <2>3. lock' \in Client \cup {Nobody}
    BY <2>0 DEF TypeOK, Look, Unlock
  <2> QED
    BY <2>0, <2>1, <2>2, <2>3 DEF TypeOK, producer, writers, Newest
<1>b. WriterInv'
  BY WriterStays DEF IInv, Look
<1>c. PayloadInv'
  BY DEF IInv, TypeOK, PayloadInv, PayloadIsNotOlder, SocketInv, Look, producer, writers, shared, Newest
<1>d. BehindInv'
  <2>1. UNCHANGED <<producer, payload>> /\ BehindInv /\ TypeOK /\ SocketInv(d)
    BY DEF Look, IInv, shared
  <2>2. \A c \in Client : Behind(c)' => Behind(c)
    BY <2>1 DEF Look, Hit, Unlock, HasLock, Goto, TypeOK, SocketInv, Behind, Bound, producer, OnWake
  <2> QED
    BY <2>1, <2>2, BehindStays
<1>e. ASSUME NEW c \in Client PROVE SocketInv(c)'
  BY DEF IInv, TypeOK, PayloadInv, PayloadIsNotOlder, SocketInv, Look, Hit, Unlock, HasLock, Goto, producer, writers, shared, Newest, OnWake, OnDemand, Blank, Foreign
<1>f. ASSUME NEW c \in Client PROVE QuietInv(c)'
  <2>1. CASE c # d
    BY <2>1, OtherStays DEF IInv, TypeOK, Look, Unlock, Goto
  <2>2. SUFFICES ASSUME c = d, Quiet', ~fresh'[d] PROVE QuietInv(d)'
    BY <2>1 DEF QuietInv
  <2>3. UNCHANGED producer /\ Quiet /\ Newest' = Newest /\ TypeOK /\ SocketInv(d) /\ QuietInv(d) /\ BehindInv
    BY <2>2 DEF Look, Quiet, producer, writers, Newest, IInv
  <2>4. /\ counter = Newest /\ ready = Newest /\ Newest \in Nat /\ Filed
        /\ payload.picture > 0 /\ payload.tag = Newest => payload.picture = Newest
    BY <2>3, AtRest
  <2>5. want[d] = Newest
    BY <2>2, <2>3 DEF Look, QuietInv
  <2> QED
    BY <2>3, <2>4, <2>5 DEF Look, Hit, Goto, QuietInv, TypeOK
<1> QED
  BY <1>a, <1>b, <1>c, <1>d, <1>e, <1>f DEF IInv

LEMMA TakeLockInv == ASSUME IInv, NEW d \in Client, TakeLock(d) PROVE IInv'
<1>a. TypeOK'
  BY ClientAssumption DEF IInv, TypeOK, SocketInv, TakeLock, Goto, producer, writers, shared, Newest, Places, Foreign, Blank
<1>b. WriterInv'
  BY WriterStays DEF IInv, TakeLock
<1>c. PayloadInv'
  BY DEF IInv, TypeOK, PayloadInv, PayloadIsNotOlder, SocketInv, TakeLock, producer, writers, shared, Newest
<1>d. BehindInv'
  <2>1. UNCHANGED <<producer, payload>> /\ BehindInv /\ TypeOK /\ SocketInv(d)
    BY DEF TakeLock, IInv, shared
  <2>2. \A c \in Client : Behind(c)' => Behind(c)
    BY <2>1 DEF TakeLock, Goto, TypeOK, SocketInv, Behind, Bound, producer, OnWake
  <2> QED
    BY <2>1, <2>2, BehindStays
<1>e. ASSUME NEW c \in Client PROVE SocketInv(c)'
  BY DEF IInv, TypeOK, PayloadInv, PayloadIsNotOlder, SocketInv, TakeLock, Goto, producer, writers, shared, Newest, OnWake, OnDemand, Blank, Foreign
<1>f. ASSUME NEW c \in Client PROVE QuietInv(c)'
  BY DEF IInv, TypeOK, WriterInv, StageInv, PayloadInv, PayloadIsNotOlder, BehindInv, SocketInv, QuietInv, Quiet, Pending, Behind, Bound, Covered, TakeLock, Goto, producer, writers, shared, Newest, Shows, OnWake, OnDemand
<1> QED
  BY <1>a, <1>b, <1>c, <1>d, <1>e, <1>f DEF IInv

LEMMA ReadLatestInv == ASSUME IInv, NEW d \in Client, ReadLatest(d) PROVE IInv'
<1>1. /\ TypeOK /\ WriterInv /\ PayloadInv /\ BehindInv /\ SocketInv(d)
      /\ UNCHANGED <<producer, payload, fresh, last>> /\ pc[d] = "reading"
  BY DEF IInv, ReadLatest
<1>2. Newest \in Nat /\ Newest' = Newest
  BY <1>1 DEF TypeOK, Newest, producer
<1>3. \/ /\ Holds
         /\ pc' = [pc EXCEPT ![d] = "encoding"] /\ got' = [got EXCEPT ![d] = Newest]
         /\ UNCHANGED <<want, seen, lock>>
      \/ /\ ~Holds
         /\ pc' = [pc EXCEPT ![d] = "sending"] /\ got' = [got EXCEPT ![d] = Newest]
         /\ want' = [want EXCEPT ![d] = 0] /\ UNCHANGED seen /\ Unlock(d)
      \/ /\ ~Holds
         /\ pc' = [pc EXCEPT ![d] = "watching"] /\ got' = [got EXCEPT ![d] = 0]
         /\ want' = [want EXCEPT ![d] = 0] /\ seen' = [seen EXCEPT ![d] = Newest] /\ Unlock(d)
  BY DEF ReadLatest, NothingToSend, Goto
<1>a. TypeOK'
  <2>1. pc' \in [Client -> Places]
    BY <1>1, <1>3 DEF TypeOK, Places
  <2>2. want' \in [Client -> Nat] /\ got' \in [Client -> Nat]
    <3>1. want' \in {want, [want EXCEPT ![d] = 0]}
      BY <1>3
    <3>2. got' \in {[got EXCEPT ![d] = Newest], [got EXCEPT ![d] = 0]}
      BY <1>3
    <3>3. want \in [Client -> Nat] /\ got \in [Client -> Nat]
      BY <1>1 DEF TypeOK
    <3> QED
      BY <1>2, <3>1, <3>2, <3>3
  <2>3. seen' \in [Client -> Nat \cup {Foreign}]
    BY <1>1, <1>2, <1>3 DEF TypeOK
  <2>4. lock' \in Client \cup {Nobody}
    BY <1>1, <1>3 DEF TypeOK, Unlock
  <2> QED
    BY <1>1, <1>2, <2>1, <2>2, <2>3, <2>4 DEF TypeOK, producer, writers
<1>b. WriterInv'
  BY <1>1, WriterStays
<1>c. PayloadInv'
  BY <1>1, <1>2 DEF PayloadInv, PayloadIsNotOlder, producer, writers
<1>d. BehindInv'
  <2>1. CASE Holds
    <3>1. \A c \in Client : Behind(c)' => Behind(c)
      BY <1>1, <1>3, <2>1 DEF TypeOK, Behind, Bound, producer, OnWake
    <3> QED
      BY <1>1, <3>1, BehindStays
  <2>2. CASE ~Holds /\ Newest > 0
    <3>1. story[Newest] \in {"frame", "refused", "none"}
      BY <1>1, <1>2, <2>2 DEF TypeOK, Newest
    <3>2. Covered'
      BY <1>1, <1>2, <2>2, <3>1 DEF Holds, Covered, Shows, producer
    <3> QED
      BY <3>2 DEF BehindInv
  <2>3. CASE ~(Newest > 0)
    <3>1. counter' = 0
      BY <1>1, <1>2, <2>3 DEF TypeOK, producer
    <3>2. \A c \in Client : last'[c] \in Nat /\ want'[c] \in Nat
      BY <1>a DEF TypeOK
    <3> QED
      BY <3>1, <3>2 DEF BehindInv, Behind, Bound
  <2> QED
    BY <2>1, <2>2, <2>3
<1>e. ASSUME NEW c \in Client PROVE SocketInv(c)'
  <2>1. SocketInv(c) /\ counter \in Nat
    BY <1>1 DEF IInv, TypeOK
  <2>2. CASE c # d
    BY <1>1, <1>2, <1>3, <2>1, <2>2 DEF TypeOK, SocketInv, producer, writers
  <2>3. CASE c = d
    <3>1. want[d] \in Nat /\ want[d] <= counter /\ counter <= Newest /\ last[d] = 0
      BY <1>1, <1>2 DEF TypeOK, SocketInv, OnDemand
    <3>2. CASE Holds
      BY <1>1, <1>2, <1>3, <2>1, <2>3, <3>1, <3>2 DEF TypeOK, SocketInv, Holds, producer, writers, OnWake
    <3>3. CASE ~Holds
      BY <1>1, <1>2, <1>3, <2>1, <2>3, <3>1, <3>3 DEF TypeOK, SocketInv, producer, writers, OnWake, OnDemand
    <3> QED
      BY <3>2, <3>3
  <2> QED
    BY <2>2, <2>3
<1>f. ASSUME NEW c \in Client PROVE QuietInv(c)'
  <2>1. CASE c # d
    BY <2>1, OtherStays DEF IInv, TypeOK, ReadLatest, NothingToSend, Goto
  <2>2. SUFFICES ASSUME c = d, Quiet', ~fresh'[d] PROVE QuietInv(d)'
    BY <2>1 DEF QuietInv
  <2>3. UNCHANGED producer /\ Quiet /\ Newest' = Newest /\ TypeOK /\ SocketInv(d) /\ QuietInv(d) /\ BehindInv
    BY <2>2 DEF ReadLatest, Quiet, producer, writers, Newest, IInv
  <2>4. /\ counter = Newest /\ ready = Newest /\ Newest \in Nat /\ Filed
        /\ payload.picture > 0 /\ payload.tag = Newest => payload.picture = Newest
    BY <2>3, AtRest
  <2>5. CASE Holds
    BY <2>2, <2>3, <2>5 DEF ReadLatest, Goto, QuietInv, TypeOK
  <2>6. CASE ~Holds /\ seen[d] = Foreign
    BY <2>2, <2>3, <2>6 DEF ReadLatest, NothingToSend, Goto, QuietInv, TypeOK
  <2>7. CASE ~Holds /\ seen[d] # Foreign
    BY <2>2, <2>3, <2>7 DEF ReadLatest, NothingToSend, Goto, QuietInv, TypeOK
  <2> QED
    BY <2>5, <2>6, <2>7
<1> QED
  BY <1>a, <1>b, <1>c, <1>d, <1>e, <1>f DEF IInv

LEMMA EncodeOnDemandInv == ASSUME IInv, NEW d \in Client, EncodeOnDemand(d) PROVE IInv'
<1>1. /\ TypeOK /\ WriterInv /\ PayloadInv /\ BehindInv /\ SocketInv(d)
      /\ UNCHANGED <<producer, fresh, last>> /\ pc[d] = "encoding"
  BY DEF IInv, EncodeOnDemand
<1>2. Newest \in Nat /\ Newest' = Newest
  BY <1>1 DEF TypeOK, Newest, producer
<1>3. /\ got[d] \in 1 .. Newest /\ want[d] \in 0 .. counter /\ want[d] <= got[d]
      /\ counter \in 0 .. Newest /\ story[got[d]] \in {"frame", "refused"} /\ last[d] = 0
  <2>1. got[d] \in 1 .. Newest /\ story[got[d]] # "none"
    BY <1>1, <1>2 DEF TypeOK, SocketInv
  <2>2. story[got[d]] \in {"frame", "refused", "none"}
    BY <1>1, <1>2, <2>1 DEF TypeOK, Newest
  <2> QED
    BY <1>1, <1>2, <2>1, <2>2 DEF TypeOK, SocketInv, OnDemand
<1>4. \/ /\ story[got[d]] = "refused" /\ UNCHANGED payload
         /\ pc' = [pc EXCEPT ![d] = "sending"] /\ got' = [got EXCEPT ![d] = got[d]]
         /\ want' = [want EXCEPT ![d] = 0] /\ UNCHANGED seen
      \/ /\ story[got[d]] = "refused" /\ UNCHANGED payload
         /\ pc' = [pc EXCEPT ![d] = "watching"] /\ got' = [got EXCEPT ![d] = 0]
         /\ want' = [want EXCEPT ![d] = 0] /\ seen' = [seen EXCEPT ![d] = got[d]]
      \/ /\ story[got[d]] # "refused" /\ Stored(want[d], got[d])
         /\ pc' = [pc EXCEPT ![d] = "sending"] /\ UNCHANGED <<want, got, seen>>
  BY DEF EncodeOnDemand, NothingToSend, Goto
<1>a. TypeOK'
  <2>1. pc' \in [Client -> Places]
    BY <1>1, <1>4 DEF TypeOK, Places
  <2>2. want' \in [Client -> Nat] /\ got' \in [Client -> Nat]
    <3>1. want' \in {want, [want EXCEPT ![d] = 0]}
      BY <1>4
    <3>2. got' \in {got, [got EXCEPT ![d] = got[d]], [got EXCEPT ![d] = 0]}
      BY <1>4
    <3>3. want \in [Client -> Nat] /\ got \in [Client -> Nat]
      BY <1>1 DEF TypeOK
    <3> QED
      BY <1>3, <3>1, <3>2, <3>3
  <2>3. seen' \in [Client -> Nat \cup {Foreign}]
    BY <1>1, <1>3, <1>4 DEF TypeOK
  <2>4. payload' \in [tag : Nat, picture : Nat]
    BY <1>1, <1>3, <1>4 DEF TypeOK, Stored
  <2>5. lock' \in Client \cup {Nobody}
    BY <1>1 DEF TypeOK, EncodeOnDemand, NothingToSend, Unlock
  <2> QED
    BY <1>1, <1>2, <2>1, <2>2, <2>3, <2>4, <2>5 DEF TypeOK, producer, writers
<1>b. WriterInv'
  BY <1>1, WriterStays
<1>c. PayloadInv'
  BY <1>1, <1>2, <1>3, <1>4 DEF TypeOK, PayloadInv, PayloadIsNotOlder, Stored, producer, writers
<1>d. BehindInv'
  <2>1. Filed' = Filed /\ UNCHANGED <<story, counter, astray>>
    BY <1>1 DEF Filed, Pending, producer, writers
  <2>2. Covered => Covered'
    BY <1>1, <1>2, <1>3, <1>4, <2>1 DEF TypeOK, PayloadInv, Covered, Stored, Shows
  <2>3. ASSUME NEW c \in Client, c # d, Behind(c)' PROVE Behind(c)
    BY <1>1, <1>4, <2>1, <2>3 DEF TypeOK, Behind, Bound, OnWake
  <2>4. CASE want[d] < counter
    <3>1. Behind(d)
      BY <1>1, <2>4 DEF Behind, Bound, OnWake
    <3> QED
      BY <1>1, <2>1, <2>2, <2>3, <3>1 DEF BehindInv
  <2>5. CASE want[d] = counter /\ story[got[d]] = "refused"
    <3>1. Filed => got[d] = Newest
      BY <1>1, <1>2, <1>3, <2>5 DEF Filed, Pending, WriterInv, StageInv
    <3>2. Filed => Covered'
      BY <1>2, <1>3, <2>1, <2>5, <3>1 DEF Covered, Shows
    <3> QED
      BY <2>1, <3>2 DEF BehindInv
  <2>6. CASE want[d] = counter /\ story[got[d]] # "refused"
    <3>1. ~Behind(d)'
      BY <1>1, <1>3, <1>4, <2>1, <2>6 DEF TypeOK, Behind, Bound, OnWake
    <3> QED
      BY <1>1, <2>1, <2>2, <2>3, <3>1 DEF BehindInv
  <2> QED
    BY <1>3, <2>4, <2>5, <2>6
<1>e. ASSUME NEW c \in Client PROVE SocketInv(c)'
  <2>1. SocketInv(c) /\ counter \in Nat
    BY <1>1 DEF IInv, TypeOK
  <2>2. CASE c # d
    BY <1>1, <1>2, <1>4, <2>1, <2>2 DEF TypeOK, SocketInv, producer, writers
  <2>3. CASE c = d
    BY <1>1, <1>2, <1>3, <1>4, <2>1, <2>3 DEF TypeOK, SocketInv, producer, writers, OnWake, OnDemand
  <2> QED
    BY <2>2, <2>3
<1>f. ASSUME NEW c \in Client PROVE QuietInv(c)'
  <2>1. CASE c # d
    BY <2>1, OtherStays DEF IInv, TypeOK, EncodeOnDemand, NothingToSend, Goto
  <2>2. SUFFICES ASSUME c = d, Quiet', ~fresh'[d] PROVE QuietInv(d)'
    BY <2>1 DEF QuietInv
  <2>3. UNCHANGED producer /\ Quiet /\ Newest' = Newest /\ TypeOK /\ SocketInv(d) /\ QuietInv(d) /\ BehindInv
    BY <2>2 DEF EncodeOnDemand, Quiet, producer, writers, Newest, IInv
  <2>4. /\ counter = Newest /\ ready = Newest /\ Newest \in Nat /\ Filed
        /\ payload.picture > 0 /\ payload.tag = Newest => payload.picture = Newest
    BY <2>3, AtRest
  <2>5. got[d] = Newest
    BY <2>2, <2>3 DEF EncodeOnDemand, QuietInv
  <2> QED
    BY <2>3, <2>4, <2>5 DEF EncodeOnDemand, NothingToSend, Goto, QuietInv, TypeOK
<1> QED
  BY <1>a, <1>b, <1>c, <1>d, <1>e, <1>f DEF IInv

LEMMA SentInv == ASSUME IInv, NEW d \in Client, Sent(d) PROVE IInv'
<1>a. TypeOK'
  BY ClientAssumption DEF IInv, TypeOK, SocketInv, Sent, Goto, producer, writers, shared, Newest, Places, Foreign, Blank
<1>b. WriterInv'
  BY WriterStays DEF IInv, Sent
<1>c. PayloadInv'
  BY DEF IInv, TypeOK, PayloadInv, PayloadIsNotOlder, SocketInv, Sent, producer, writers, shared, Newest
<1>d. BehindInv'
  <2>1. UNCHANGED <<producer, payload>> /\ BehindInv /\ TypeOK /\ SocketInv(d)
    BY DEF Sent, IInv, shared
  <2>2. \A c \in Client : Behind(c)' => Behind(c)
    BY <2>1 DEF Sent, Goto, TypeOK, SocketInv, Behind, Bound, producer, OnWake
  <2> QED
    BY <2>1, <2>2, BehindStays
<1>e. ASSUME NEW c \in Client PROVE SocketInv(c)'
  BY DEF IInv, TypeOK, PayloadInv, PayloadIsNotOlder, SocketInv, Sent, Goto, producer, writers, shared, Newest, OnWake, OnDemand, Blank, Foreign
<1>f. ASSUME NEW c \in Client PROVE QuietInv(c)'
  BY DEF IInv, TypeOK, WriterInv, StageInv, PayloadInv, PayloadIsNotOlder, BehindInv, SocketInv, QuietInv, Quiet, Pending, Behind, Bound, Covered, Sent, Goto, producer, writers, shared, Newest, Shows, OnWake, OnDemand
<1> QED
  BY <1>a, <1>b, <1>c, <1>d, <1>e, <1>f DEF IInv

LEMMA WakeInv == ASSUME IInv, NEW d \in Client, Wake(d) PROVE IInv'
<1>a. TypeOK'
  <2>0. TypeOK /\ ready \in Nat
    BY DEF IInv, TypeOK, Newest
  <2>1. pc' \in [Client -> Places]
    <3>1. pc' \in {pc, [pc EXCEPT ![d] = "matching"]}
      BY DEF Wake, Goto
    <3> QED
      BY <2>0, <3>1 DEF TypeOK, Places
  <2>2. want' \in [Client -> Nat]
    <3>1. want' \in {want, [want EXCEPT ![d] = ready]}
      BY DEF Wake
    <3> QED
      BY <2>0, <3>1 DEF TypeOK
  <2>3. fresh' \in [Client -> BOOLEAN]
    BY <2>0 DEF TypeOK, Wake
  <2>4. UNCHANGED <<story, counter, ready, stage, place, version, astray, met, payload, lock, got, last, seen>>
    BY DEF Wake, producer, writers, shared
  <2> QED
    BY <2>0, <2>1, <2>2, <2>3, <2>4 DEF TypeOK, Newest
<1>b. WriterInv'
  BY WriterStays DEF IInv, Wake
<1>c. PayloadInv'
  BY DEF IInv, TypeOK, PayloadInv, PayloadIsNotOlder, SocketInv, Wake, producer, writers, shared, Newest
<1>d. BehindInv'
  <2>1. UNCHANGED <<producer, payload>> /\ BehindInv /\ TypeOK /\ SocketInv(d)
    BY DEF Wake, IInv, shared
  <2>2. \A c \in Client : Behind(c)' => Behind(c)
    BY <2>1 DEF Wake, Goto, TypeOK, SocketInv, Behind, Bound, producer, OnWake
  <2> QED
    BY <2>1, <2>2, BehindStays
<1>e. ASSUME NEW c \in Client PROVE SocketInv(c)'
  BY DEF IInv, TypeOK, PayloadInv, PayloadIsNotOlder, SocketInv, Wake, Goto, producer, writers, shared, Newest, OnWake, OnDemand, Blank, Foreign
<1>f. ASSUME NEW c \in Client PROVE QuietInv(c)'
  <2>1. CASE c # d
    BY <2>1, OtherStays DEF IInv, TypeOK, Wake, Goto
  <2>2. SUFFICES ASSUME c = d, Quiet', ~fresh'[d] PROVE QuietInv(d)'
    BY <2>1 DEF QuietInv
  <2>3. UNCHANGED producer /\ Quiet /\ Newest' = Newest /\ TypeOK /\ SocketInv(d) /\ QuietInv(d) /\ BehindInv
    BY <2>2 DEF Wake, Quiet, producer, writers, Newest, IInv
  <2>4. /\ counter = Newest /\ ready = Newest /\ Newest \in Nat /\ Filed
        /\ payload.picture > 0 /\ payload.tag = Newest => payload.picture = Newest
    BY <2>3, AtRest
  <2>5. CASE ready <= last[d]
    <3>1. last[d] = Newest /\ last[d] \notin astray
      BY <2>3, <2>4, <2>5 DEF SocketInv, TypeOK, Quiet
    <3>2. seen[d] \in Int /\ seen[d] <= Newest /\ seen[d] >= last[d]
      BY <2>3, <3>1 DEF Wake, SocketInv, TypeOK, OnWake, Foreign
    <3>3. seen'[d] = Newest' /\ pc'[d] = "watching"
      BY <2>3, <2>4, <2>5, <3>1, <3>2 DEF Wake
    <3> QED
      BY <3>3 DEF QuietInv
  <2>6. CASE ~(ready <= last[d])
    BY <2>3, <2>4, <2>6 DEF Wake, Goto, QuietInv, TypeOK
  <2> QED
    BY <2>5, <2>6
<1> QED
  BY <1>a, <1>b, <1>c, <1>d, <1>e, <1>f DEF IInv

LEMMA MatchInv == ASSUME IInv, NEW d \in Client, Match(d) PROVE IInv'
<1>a. TypeOK'
  BY ClientAssumption DEF IInv, TypeOK, SocketInv, Match, Hit, Goto, producer, writers, shared, Newest, Places, Foreign, Blank
<1>b. WriterInv'
  BY WriterStays DEF IInv, Match
<1>c. PayloadInv'
  BY DEF IInv, TypeOK, PayloadInv, PayloadIsNotOlder, SocketInv, Match, producer, writers, shared, Newest
<1>d. BehindInv'
  <2>1. UNCHANGED <<producer, payload>> /\ BehindInv /\ TypeOK /\ SocketInv(d)
    BY DEF Match, IInv, shared
  <2>2. \A c \in Client : Behind(c)' => Behind(c)
    BY <2>1 DEF Match, Hit, Goto, TypeOK, SocketInv, Behind, Bound, producer, OnWake
  <2> QED
    BY <2>1, <2>2, BehindStays
<1>e. ASSUME NEW c \in Client PROVE SocketInv(c)'
  BY DEF IInv, TypeOK, PayloadInv, PayloadIsNotOlder, SocketInv, Match, Hit, Goto, producer, writers, shared, Newest, OnWake, OnDemand, Blank, Foreign
<1>f. ASSUME NEW c \in Client PROVE QuietInv(c)'
  <2>1. CASE c # d
    BY <2>1, OtherStays DEF IInv, TypeOK, Match, Goto
  <2>2. SUFFICES ASSUME c = d, Quiet', ~fresh'[d] PROVE QuietInv(d)'
    BY <2>1 DEF QuietInv
  <2>3. UNCHANGED producer /\ Quiet /\ Newest' = Newest /\ TypeOK /\ SocketInv(d) /\ QuietInv(d) /\ BehindInv
    BY <2>2 DEF Match, Quiet, producer, writers, Newest, IInv
  <2>4. /\ counter = Newest /\ ready = Newest /\ Newest \in Nat /\ Filed
        /\ payload.picture > 0 /\ payload.tag = Newest => payload.picture = Newest
    BY <2>3, AtRest
  <2>5. want[d] = Newest
    BY <2>2, <2>3 DEF Match, QuietInv
  <2>6. CASE Hit(d)
    BY <2>3, <2>4, <2>5, <2>6 DEF Match, Hit, Goto, QuietInv, TypeOK
  <2>7. CASE ~Hit(d)
    <3>1. Behind(d)
      BY <2>3, <2>4, <2>5 DEF Match, Behind, Bound, OnWake, SocketInv
    <3>2. Shows({"refused", "none"})
      BY <2>3, <2>4, <2>5, <2>7, <3>1 DEF BehindInv, Quiet, Covered, Hit
    <3> QED
      BY <2>3, <2>7, <3>2 DEF Match, Goto, QuietInv, TypeOK, Shows, producer
  <2> QED
    BY <2>6, <2>7
<1> QED
  BY <1>a, <1>b, <1>c, <1>d, <1>e, <1>f DEF IInv

LEMMA HoldInv == ASSUME IInv, NEW d \in Client, Hold(d) PROVE IInv'
<1>a. TypeOK'
  <2>0. TypeOK /\ Newest \in Nat
    BY DEF IInv, TypeOK, Newest
  <2>1. pc' \in [Client -> Places]
    <3>1. \E q \in {"watching", "sending"} : pc' = [pc EXCEPT ![d] = q]
      BY DEF Hold, Goto
    <3> QED
      BY <2>0, <3>1 DEF TypeOK, Places
  <2>2. want' \in [Client -> Nat]
    <3>1. want' \in {want, [want EXCEPT ![d] = 0]}
      BY DEF Hold
    <3>2. [want EXCEPT ![d] = 0] \in [Client -> Nat]
      BY <2>0 DEF TypeOK
    <3> QED
      BY <2>0, <3>1, <3>2 DEF TypeOK
  <2>3. got' \in [Client -> Nat]
    BY <2>0 DEF TypeOK, Hold
  <2>4. UNCHANGED <<story, counter, ready, stage, place, version, astray, met, payload, lock, fresh, last, seen>>
    BY DEF Hold, producer, writers, shared
  <2> QED
    BY <2>0, <2>1, <2>2, <2>3, <2>4 DEF TypeOK, Newest
<1>b. WriterInv'
  BY WriterStays DEF IInv, Hold
<1>c. PayloadInv'
  BY DEF IInv, TypeOK, PayloadInv, PayloadIsNotOlder, SocketInv, Hold, producer, writers, shared, Newest
<1>d. BehindInv'
  <2>1. UNCHANGED <<producer, payload>> /\ BehindInv /\ TypeOK /\ SocketInv(d)
    BY DEF Hold, IInv, shared
  <2>2. \A c \in Client : Behind(c)' => Behind(c)
    BY <2>1 DEF Hold, Holds, Goto, TypeOK, SocketInv, Behind, Bound, producer, OnWake
  <2> QED
    BY <2>1, <2>2, BehindStays
<1>e. ASSUME NEW c \in Client PROVE SocketInv(c)'
  BY DEF IInv, TypeOK, PayloadInv, PayloadIsNotOlder, SocketInv, Hold, Holds, Goto, producer, writers, shared, Newest, OnWake, OnDemand, Blank, Foreign
<1>f. ASSUME NEW c \in Client PROVE QuietInv(c)'
  <2>1. CASE c # d
    BY <2>1, OtherStays DEF IInv, TypeOK, Hold, Goto
  <2>2. CASE c = d
    <3>1. SUFFICES ASSUME Quiet', ~fresh'[d] PROVE QuietInv(d)'
      BY <2>2 DEF QuietInv
    <3>2. UNCHANGED producer /\ Quiet /\ Newest' = Newest /\ TypeOK /\ QuietInv(d)
      BY <3>1 DEF Hold, Quiet, producer, writers, Newest, IInv
    <3>3. Shows({"refused", "none"}) /\ Shows({"refused"})' = Shows({"refused"})
      BY <3>1, <3>2 DEF Hold, QuietInv, Shows, producer
    <3> QED
      BY <3>2, <3>3 DEF Hold, Holds, Goto, QuietInv, Shows, TypeOK
  <2> QED
    BY <2>1, <2>2
<1> QED
  BY <1>a, <1>b, <1>c, <1>d, <1>e, <1>f DEF IInv

LEMMA LeaveInv == ASSUME IInv, NEW d \in Client, Leave(d) PROVE IInv'
<1>a. TypeOK'
  BY ClientAssumption DEF IInv, TypeOK, SocketInv, Leave, Goto, producer, writers, shared, Newest, Places, Foreign, Blank
<1>b. WriterInv'
  BY WriterStays DEF IInv, Leave
<1>c. PayloadInv'
  BY DEF IInv, TypeOK, PayloadInv, PayloadIsNotOlder, SocketInv, Leave, producer, writers, shared, Newest
<1>d. BehindInv'
  <2>1. UNCHANGED <<producer, payload>> /\ BehindInv /\ TypeOK /\ SocketInv(d)
    BY DEF Leave, IInv, shared
  <2>2. \A c \in Client : Behind(c)' => Behind(c)
    BY <2>1 DEF Leave, Goto, TypeOK, SocketInv, Behind, Bound, producer, OnWake
  <2> QED
    BY <2>1, <2>2, BehindStays
<1>e. ASSUME NEW c \in Client PROVE SocketInv(c)'
  BY DEF IInv, TypeOK, PayloadInv, PayloadIsNotOlder, SocketInv, Leave, Goto, producer, writers, shared, Newest, OnWake, OnDemand, Blank, Foreign
<1>f. ASSUME NEW c \in Client PROVE QuietInv(c)'
  BY DEF IInv, TypeOK, WriterInv, StageInv, PayloadInv, PayloadIsNotOlder, BehindInv, SocketInv, QuietInv, Quiet, Pending, Behind, Bound, Covered, Leave, Goto, producer, writers, shared, Newest, Shows, OnWake, OnDemand
<1> QED
  BY <1>a, <1>b, <1>c, <1>d, <1>e, <1>f DEF IInv

-----------------------------------------------------------------------------
(* IInv is inductive.                                                      *)
LEMMA Steps == IInv /\ [Next]_vars => IInv'
<1> SUFFICES ASSUME IInv, [Next]_vars PROVE IInv'
  OBVIOUS
<1>1. CASE SetLatest \/ Produces
  BY <1>1, SetLatestInv, BeginFrameInv, CountInv, EncodeFamilyInv, PublishFrameInv, SendInv
     DEF Produces, Writer
<1>2. CASE Clear \/ Clears
  BY <1>2, ClearInv, DropPayloadInv, BeginFrameInv, SendInv DEF Clears, Writer
<1>3. ASSUME NEW c \in Client, Connect(c) \/ SwitchHere(c) \/ Leave(c) \/ Serves(c) PROVE IInv'
  BY <1>3, ConnectInv, SwitchHereInv, LeaveInv, SubscribeInv, AskInv, LookInv, TakeLockInv,
     ReadLatestInv, EncodeOnDemandInv, SentInv, WakeInv, MatchInv, HoldInv DEF Serves
<1>4. CASE UNCHANGED vars
  <2>1. UNCHANGED <<producer, payload, lock, pc, fresh, want, got, last, seen>>
    BY <1>4 DEF vars, shared, sockets
  <2>2. TypeOK' /\ PayloadInv'
    BY <2>1 DEF IInv, TypeOK, PayloadInv, PayloadIsNotOlder, producer, writers, Newest
  <2>3. BehindInv'
    BY <2>1, BehindStays DEF IInv, Behind, Bound, producer
  <2>4. \A c \in Client : SocketInv(c)' /\ QuietInv(c)'
    BY <2>1, OtherStays DEF IInv, SocketInv, producer, writers, Newest
  <2> QED
    BY <2>1, <2>2, <2>3, <2>4, WriterStays DEF IInv
<1> QED
  BY <1>1, <1>2, <1>3, <1>4 DEF Next

(* InductiveInvariant: what every half of a delivery leaves true.          *)
THEOREM InductiveInvariant == Spec => []IInv
<1> QED
  BY Starts, Steps, PTL DEF Spec

(* TypeCorrect: every variable keeps to its type, and no version is        *)
(* published before it is claimed, none claimed before its frame is set.   *)
THEOREM TypeCorrect == Spec => []TypeOK
<1>1. IInv => TypeOK
  BY DEF IInv
<1> QED
  BY <1>1, InductiveInvariant, PTL

(* PayloadsAreNotOlder: whatever a producer and any number of on-demand    *)
(* encodes file, no payload is of a picture older than its version, unless *)
(* that was claimed when a clear had taken its picture down already.       *)
THEOREM PayloadsAreNotOlder == Spec => []PayloadIsNotOlder
<1>1. IInv => PayloadIsNotOlder
  BY DEF IInv, PayloadInv
<1> QED
  BY <1>1, InductiveInvariant, PTL

(* NothingIsMissed: a handler with nothing left to do has shown its page   *)
(* what the stream shows, however publishes, clears and encodes fell, over *)
(* every stream no clear has met a frame under way of, and over the others *)
(* once their last version is out and the newest picture's.                *)
THEOREM NothingIsMissed == Spec => []NothingMissed
<1>1. IInv => NothingMissed
  <2> SUFFICES ASSUME IInv, NEW c \in Client, Settled(c) PROVE seen[c] = Newest
    BY DEF NothingMissed
  <2>1. TypeOK /\ WriterInv /\ QuietInv(c) /\ Newest \in Nat
    BY DEF IInv, TypeOK, Newest
  <2>2. stage["producer"] = "resting" /\ stage["clear"] = "resting"
    BY DEF Settled, Writer
  <2>3. Quiet
    BY <2>1, <2>2 DEF Settled, InOrder, WriterInv, MetInv, Quiet
  <2> QED
    BY <2>1, <2>3 DEF QuietInv, Settled, Shows
<1> QED
  BY <1>1, InductiveInvariant, PTL

-----------------------------------------------------------------------------
(* The refinement: a send that ends is an update, no older than its        *)
(* version and no earlier than the last; every other step of a handler     *)
(* moves no page.                                                          *)
LEMMA SentUpdates ==
    ASSUME IInv, NEW c \in Client, Sent(c)
    PROVE  Promised!Update(c, got[c]) /\ got[c] \in 0 .. Newest
<1>1. TypeOK /\ SocketInv(c) /\ Newest \in Nat
  BY DEF IInv, TypeOK, Newest
<1>2. got[c] \in 0 .. Newest /\ want[c] \in (0 .. got[c]) \cup astray
  BY <1>1 DEF TypeOK, SocketInv, Sent
<1>3. want[c] > last[c] \/ last[c] = 0
  BY <1>1 DEF TypeOK, SocketInv, Sent
<1>4. {k \in Client : pc'[k] # "away"} = {k \in Client : pc[k] # "away"}
  BY <1>1 DEF TypeOK, Sent, Goto
<1>5. UNCHANGED <<story, astray, InOrder>>
  BY DEF Sent, InOrder, producer, writers
<1> QED
  BY <1>2, <1>3, <1>4, <1>5 DEF Sent, Promised!Update, Promised!stream

LEMMA NothingUpdates ==
    ASSUME IInv, NEW c \in Client, NEW p \in 0 .. Newest, NothingToSend(c, p),
           pc[c] \in {"reading", "encoding"}, UNCHANGED <<producer, last>>
    PROVE  Promised!Update(c, p) \/ UNCHANGED Promised!viewVars
<1>1. TypeOK /\ SocketInv(c)
  BY DEF IInv
<1>2. last[c] = 0 /\ last' = [last EXCEPT ![c] = 0]
  BY <1>1 DEF TypeOK, SocketInv, OnDemand
<1>3. {k \in Client : pc'[k] # "away"} = {k \in Client : pc[k] # "away"}
  BY <1>1 DEF TypeOK, NothingToSend, Goto
<1>4. 0 \in 0 .. p
  OBVIOUS
<1>5. UNCHANGED <<story, astray, InOrder>>
  BY DEF InOrder, producer, writers
<1>6. CASE seen[c] = Foreign
  BY <1>3, <1>5, <1>6 DEF NothingToSend, Promised!viewVars, Promised!stream, Promised!pages
<1>7. CASE seen[c] # Foreign
  BY <1>1, <1>2, <1>3, <1>4, <1>5, <1>7 DEF NothingToSend, Promised!Update, Promised!stream
<1> QED
  BY <1>6, <1>7

LEMMA SocketStepMaps ==
    ASSUME IInv, NEW c \in Client, Connect(c) \/ SwitchHere(c) \/ Leave(c) \/ Serves(c)
    PROVE  [Promised!Next]_(Promised!viewVars)
<1>1. TypeOK /\ SocketInv(c) /\ Newest \in Nat /\ Promised!Newest = Newest
  BY DEF IInv, TypeOK, Newest, Promised!Newest
<1>2. UNCHANGED producer /\ UNCHANGED <<story, astray, InOrder>>
  <2>1. UNCHANGED producer
    BY DEF Connect, SwitchHere, Leave, Serves, Subscribe, Ask, Look, TakeLock, ReadLatest,
       EncodeOnDemand, Sent, Wake, Match, Hold
  <2> QED
    BY <2>1 DEF InOrder, producer, writers
<1>3. CASE Connect(c) \/ SwitchHere(c)
  <2>1. {k \in Client : pc'[k] # "away"} = {k \in Client : pc[k] # "away"} \cup {c}
    BY <1>1, <1>3 DEF TypeOK, Connect, SwitchHere, Goto
  <2>2. \E p \in {Blank, Foreign} : seen' = [seen EXCEPT ![c] = p]
    BY <1>1, <1>3 DEF TypeOK, SocketInv, Connect, SwitchHere
  <2>3. Promised!Join(c)
    BY <1>2, <1>3, <2>1, <2>2 DEF Connect, SwitchHere, Promised!Join, Promised!stream,
       Promised!Blank, Promised!Foreign, Blank, Foreign
  <2> QED
    BY <2>3 DEF Promised!Next
<1>4. CASE Leave(c)
  <2>1. {k \in Client : pc'[k] # "away"} = {k \in Client : pc[k] # "away"} \ {c}
    BY <1>1, <1>4 DEF TypeOK, Leave, Goto
  <2>2. Promised!Part(c)
    BY <1>2, <1>4, <2>1 DEF Leave, Promised!Part, Promised!stream, Promised!Blank, Blank
  <2> QED
    BY <2>2 DEF Promised!Next
<1>5. CASE Sent(c)
  BY <1>1, <1>5, SentUpdates DEF Promised!Next
<1>6. CASE ReadLatest(c) /\ ~Holds
  BY <1>1, <1>2, <1>6, NothingUpdates DEF ReadLatest, Promised!Next
<1>7. CASE EncodeOnDemand(c) /\ story[got[c]] = "refused"
  <2>1. got[c] \in 0 .. Newest
    BY <1>1 DEF TypeOK, SocketInv
  <2> QED
    BY <1>1, <1>2, <1>7, <2>1, NothingUpdates DEF EncodeOnDemand, Promised!Next
<1>8. CASE \/ Subscribe(c) \/ Ask(c) \/ Look(c) \/ TakeLock(c) \/ Wake(c) \/ Match(c) \/ Hold(c)
           \/ ReadLatest(c) /\ Holds
           \/ EncodeOnDemand(c) /\ story[got[c]] # "refused"
  <2>1. UNCHANGED <<last, seen>>
    BY <1>8 DEF Subscribe, Ask, Look, TakeLock, Wake, Match, Hold, ReadLatest, EncodeOnDemand
  <2>2. pc' = pc \/ \E q \in Places \ {"away"} : pc' = [pc EXCEPT ![c] = q]
    BY <1>8 DEF Subscribe, Ask, Look, TakeLock, Wake, Match, Hold, ReadLatest, EncodeOnDemand, Goto, Places
  <2>3. pc[c] # "away"
    BY <1>8 DEF Subscribe, Ask, Look, TakeLock, Wake, Match, Hold, ReadLatest, EncodeOnDemand
  <2>4. {k \in Client : pc'[k] # "away"} = {k \in Client : pc[k] # "away"}
    BY <1>1, <2>2, <2>3 DEF TypeOK
  <2> QED
    BY <1>2, <2>1, <2>4 DEF Promised!viewVars, Promised!stream, Promised!pages
<1> QED
  BY <1>3, <1>4, <1>5, <1>6, <1>7, <1>8 DEF Serves

(* A version is of a picture in the story, and only a clear's makes a      *)
(* stream less than orderly.                                               *)
LEMMA WriterStepMaps ==
    ASSUME IInv, IInv', SetLatest \/ Produces \/ Clear \/ Clears
    PROVE  Promised!Next
<1>1. UNCHANGED <<pc, last, seen>>
  BY DEF SetLatest, Clear, Produces, Clears, BeginFrame, PublishFrame, Send, Count, EncodeFamily,
     DropPayload, sockets
<1>2. Promised!Orderly
  <2>1. MetInv' /\ (InOrder' \in BOOLEAN)
    BY DEF IInv, WriterInv, InOrder
  <2>2. ~Promised!Cleared' => ~met'
    BY <2>1 DEF MetInv, Promised!Cleared, Promised!Newest, Newest
  <2> QED
    BY <2>1, <2>2 DEF MetInv, InOrder, Promised!Orderly
<1>3. CASE SetLatest \/ Clear
  <2>1. UNCHANGED astray /\ \E p \in {"frame", "refused", "none"} : story' = Append(story, p)
    BY <1>3 DEF SetLatest, Clear, Turn
  <2> QED
    BY <1>1, <1>2, <2>1 DEF Promised!Next, Promised!Turn, Promised!pages
<1>4. CASE Produces \/ Clears
  <2>1. UNCHANGED story
    BY <1>4 DEF Produces, Clears, BeginFrame, PublishFrame, Send, Count, EncodeFamily, DropPayload
  <2>2. astray \subseteq astray' /\ astray' \ astray \subseteq 1 .. Newest
    <3>1. CASE \E w \in Writer : BeginFrame(w)
      <4>1. PICK w \in Writer : BeginFrame(w)
        BY <3>1
      <4>2. astray' \subseteq astray \cup {counter + 1} /\ astray \subseteq astray' /\ stage[w] = "claiming"
        BY <4>1 DEF BeginFrame, StageIs
      <4>3. counter + 1 \in 1 .. Newest
        <5>1. TypeOK /\ StageInv /\ Newest \in Nat
          <6>1. TypeOK /\ StageInv
            BY DEF IInv, WriterInv
          <6> QED
            BY <6>1 DEF TypeOK, Newest
        <5>2. counter + 1 <= Newest /\ counter \in Nat
          BY <4>2, <5>1 DEF TypeOK, StageInv, Pending, Writer
        <5> QED
          BY <5>1, <5>2
      <4> QED
        BY <4>2, <4>3
    <3>2. CASE UNCHANGED astray
      BY <3>2
    <3> QED
      BY <1>4, <3>1, <3>2 DEF Produces, Clears, PublishFrame, Send, Count, EncodeFamily, DropPayload, Writer
  <2> QED
    BY <1>1, <1>2, <2>1, <2>2 DEF Promised!Next, Promised!Version, Promised!pages, Promised!Newest, Newest
<1> QED
  BY <1>3, <1>4

(* ImplementsLiveView: the stream keeps LiveView's safety promises, for    *)
(* every set of pages and a story of any length.                           *)
THEOREM ImplementsLiveView == Spec => Promised!SafeView
<1>1. Init => Promised!Init
  BY DEF Init, InOrder, Promised!Init, Promised!Blank, Blank
<1>2. IInv /\ IInv' /\ [Next]_vars => [Promised!Next]_(Promised!viewVars)
  <2>1. ASSUME UNCHANGED vars PROVE UNCHANGED Promised!viewVars
    BY <2>1 DEF vars, producer, writers, sockets, InOrder, Promised!viewVars, Promised!stream, Promised!pages
  <2> QED
    BY <2>1, SocketStepMaps, WriterStepMaps DEF Next
<1> QED
  BY <1>1, <1>2, InductiveInvariant, PTL DEF Spec, Promised!SafeView

=============================================================================
