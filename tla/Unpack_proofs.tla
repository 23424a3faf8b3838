--------------------------- MODULE Unpack_proofs ---------------------------
(***************************************************************************)
(* Theorems about Unpack, for any number of archives, however they are     *)
(* compressed, whatever the decoders make of them and whatever is in them: *)
(* the decoders first, then the walks along links, then the share.         *)
(***************************************************************************)
EXTENDS Unpack, WellFoundedInduction, TLAPS

-----------------------------------------------------------------------------
(***************************************************************************)
(* The inductive invariant.                                                *)
(***************************************************************************)
Underway == {"waiting", "loading", "decoding"}

UType ==
  /\ status \in [Archives -> {"idle"} \cup Underway \cup Settled]
  /\ queue \in Seq(Archives)
  /\ filled \in Nat
  /\ unpacked \in [Archives -> Nat]
  /\ blame \in [Archives -> {"nothing", "bytes", "decoder"}]

\* An archive hangs on the promise once, from the moment it is to be decoded
\* to the end of its decode, and only the first is past waiting.
Queued ==
  /\ \A i, j \in DOMAIN queue : queue[i] = queue[j] => i = j
  /\ \A i \in DOMAIN queue : i # 1 => status[queue[i]] = "waiting"
  /\ \A i \in DOMAIN queue : status[queue[i]] \in Underway
  /\ \A a \in Archives : status[a] \in Underway => \E i \in DOMAIN queue : queue[i] = a

\* The module is only waited for by a bzip2 archive, whose buffer is empty.
Awaited ==
  \A a \in Archives :
    status[a] = "loading" => codec[a] = "bzip2" /\ filled = 0

UInv == UType /\ Queued /\ Awaited /\ OwnVerdict /\ BuffersFit

-----------------------------------------------------------------------------
LEMMA InitU == Init => UInv
<1> SUFFICES ASSUME Init PROVE UInv
  OBVIOUS
<1>1. queue = << >> /\ status = [a \in Archives |-> "idle"] /\ decoders = {}
  BY DEF Init
<1>2. UType
  BY <1>1 DEF Init, UType
<1>3. Queued /\ Awaited /\ OwnVerdict /\ BuffersFit
  BY <1>1 DEF Queued, Awaited, OwnVerdict, BuffersFit, Underway, Current
<1> QED BY <1>2, <1>3 DEF UInv

\* The decode under way is the first in the queue.
LEMMA First ==
  ASSUME UInv
  PROVE  /\ queue # << >> => 1 \in DOMAIN queue /\ Head(queue) = queue[1]
         /\ \A a \in Current : a \in Archives /\ queue # << >> /\ a = queue[1]
         /\ \A a \in Archives : status[a] \in {"loading", "decoding"} => a \in Current
<1>1. queue # << >> => 1 \in DOMAIN queue /\ Head(queue) = queue[1]
  BY DEF UInv, UType
<1>2. ASSUME NEW a \in Archives, status[a] \in {"loading", "decoding"}
      PROVE  a \in Current
  <2>1. PICK i \in DOMAIN queue : queue[i] = a
    BY <1>2 DEF UInv, Queued, Underway
  <2>2. i = 1
    BY <1>2, <2>1 DEF UInv, Queued
  <2>3. queue # << >>
    BY <2>1
  <2> QED BY <1>1, <2>1, <2>2, <2>3 DEF Current
<1> QED BY <1>1, <1>2 DEF Current

\* Behind the end of a decode: its archive is out of the queue, and whatever
\* is first now has been waiting.
LEMMA AfterSettle ==
  ASSUME UInv, NEW a \in Current, NEW verdict \in Settled,
         Settle(a, verdict)
  PROVE  /\ status' = [status EXCEPT ![a] = verdict] /\ queue' \in Seq(Archives)
         /\ Queued' /\ decoders' = {}
         /\ \A b \in Archives : status'[b] \notin {"loading", "decoding"}
<1>1. /\ a \in Archives /\ queue # << >> /\ a = queue[1]
      /\ queue' = Tail(queue) /\ status' = [status EXCEPT ![a] = verdict]
      /\ decoders' = decoders \ {a}
  BY First DEF Settle
<1>2. /\ queue' \in Seq(Archives)
      /\ \A i \in DOMAIN queue' : /\ i + 1 \in DOMAIN queue /\ i + 1 # 1
                                  /\ queue'[i] = queue[i + 1]
      /\ \A i \in DOMAIN queue : i # 1 => i - 1 \in DOMAIN queue' /\ queue'[i - 1] = queue[i]
      /\ 1 \in DOMAIN queue
      /\ DOMAIN queue' \subseteq Nat
  BY <1>1 DEF UInv, UType
<1>3. \A i \in DOMAIN queue : i # 1 => queue[i] # a
  BY <1>1, <1>2 DEF UInv, Queued
<1>4. \A b \in Archives : status'[b] = IF b = a THEN verdict ELSE status[b]
  BY <1>1 DEF UInv, UType
<1>5. verdict \notin Underway
  BY DEF Settled, Underway
<1>6. \A i \in DOMAIN queue' : status'[queue'[i]] = "waiting"
  <2> TAKE i \in DOMAIN queue'
  <2>1. queue'[i] \in Archives
    BY <1>2
  <2> QED BY <1>2, <1>3, <1>4, <2>1 DEF UInv, Queued
<1>7. \A i, j \in DOMAIN queue' : queue'[i] = queue'[j] => i = j
  <2> TAKE i, j \in DOMAIN queue'
  <2> HAVE queue'[i] = queue'[j]
  <2>1. i + 1 = j + 1
    BY <1>2 DEF UInv, Queued
  <2>2. i \in Nat /\ j \in Nat
    BY <1>2
  <2> QED BY <2>1, <2>2
<1>8. ASSUME NEW b \in Archives, status'[b] \in Underway
      PROVE  b # a /\ \E i \in DOMAIN queue' : queue'[i] = b
  <2>1. b # a /\ status[b] \in Underway
    BY <1>4, <1>5, <1>8
  <2>2. PICK i \in DOMAIN queue : queue[i] = b
    BY <2>1 DEF UInv, Queued
  <2>3. i # 1
    BY <1>1, <2>1, <2>2
  <2> QED BY <1>2, <2>1, <2>2, <2>3
<1>9. Queued'
  BY <1>6, <1>7, <1>8 DEF Queued, Underway
<1>10. \A b \in Archives : status'[b] \notin {"loading", "decoding"}
  BY <1>6, <1>8 DEF Underway
<1>11. decoders' = {}
  BY <1>1, First DEF UInv, BuffersFit
<1> QED BY <1>1, <1>2, <1>9, <1>10, <1>11

\* A decode that ends, with the verdict on its own archive, keeps the
\* invariant.
LEMMA EndKeeps ==
  ASSUME UInv, NEW a \in Current, NEW verdict \in Settled, Settle(a, verdict),
         filled' \in Nat, unpacked' \in [Archives -> Nat],
         \A b \in Archives : b # a => unpacked'[b] = unpacked[b],
         NEW why \in {"nothing", "bytes", "decoder"},
         Blame(a, why) \/ (why = blame[a] /\ UNCHANGED blame),
         verdict = "failed" => why \in {"bytes", "decoder"},
         verdict = "unavailable" => codec[a] = "bzip2" /\ why = "decoder",
         codec[a] = "bzip2" /\ verdict \in {"done", "written"} => narSize[a] \in {0, unpacked'[a]}
  PROVE  UInv'
<1>1. a \in Archives
  BY First
<1>2. \A b \in Archives : status'[b] = IF b = a THEN verdict ELSE status[b]
  BY <1>1, AfterSettle DEF UInv, UType
<1>b. /\ blame' \in [Archives -> {"nothing", "bytes", "decoder"}]
      /\ \A b \in Archives : blame'[b] = IF b = a THEN why ELSE blame[b]
  BY <1>1 DEF Blame, UInv, UType
<1>3. UType'
  BY <1>1, <1>b, AfterSettle DEF UInv, UType
<1>4. Queued'
  BY AfterSettle
<1>5. Awaited'
  BY AfterSettle DEF Awaited
<1>6. OwnVerdict'
  BY <1>1, <1>2, <1>b DEF UInv, OwnVerdict
<1>7. BuffersFit'
  <2>1. \A b \in Archives :
          codec[b] = "bzip2" /\ status'[b] \in {"done", "written"} =>
            narSize[b] \in {0, unpacked'[b]}
    BY <1>1, <1>2 DEF UInv, BuffersFit
  <2>2. \A b \in Current' : status'[b] # "decoding"
    BY AfterSettle DEF Current
  <2> QED BY <2>1, <2>2, AfterSettle DEF BuffersFit
<1> QED BY <1>3, <1>4, <1>5, <1>6, <1>7 DEF UInv

\* The archive of a decode goes from one stage of it to the next.
LEMMA StageKeeps ==
  ASSUME UInv, NEW a \in Current, NEW stage \in {"loading", "decoding"},
         status' = [status EXCEPT ![a] = stage],
         stage = "loading" => codec[a] = "bzip2",
         filled' = 0,
         decoders' \subseteq decoders \cup {a},
         stage = "loading" => decoders' = decoders /\ status[a] = "waiting",
         UNCHANGED <<queue, unpacked, blame>>
  PROVE  UInv'
<1>1. a \in Archives /\ queue # << >> /\ a = queue[1] /\ 1 \in DOMAIN queue
  BY First
<1>2. \A b \in Archives : status'[b] = IF b = a THEN stage ELSE status[b]
  BY <1>1 DEF UInv, UType
<1>3. UType'
  BY <1>1 DEF UInv, UType, Underway
<1>4. \A i \in DOMAIN queue : queue[i] \in Archives /\ (i # 1 => queue[i] # a)
  BY <1>1 DEF UInv, UType, Queued
<1>5. Queued'
  <2>1. \A i \in DOMAIN queue : i # 1 => status'[queue[i]] = "waiting"
    BY <1>2, <1>4 DEF UInv, Queued
  <2>2. \A i \in DOMAIN queue : status'[queue[i]] \in Underway
    BY <1>2, <1>4 DEF UInv, Queued, Underway
  <2>3. \A b \in Archives : status'[b] \in Underway => \E i \in DOMAIN queue : queue[i] = b
    BY <1>1, <1>2 DEF UInv, Queued, Underway
  <2> QED BY <2>1, <2>2, <2>3 DEF UInv, Queued
<1>6. \A b \in Current : b = a
  BY <1>1, First
<1>7. Awaited'
  BY <1>2 DEF UInv, Awaited
<1>8. OwnVerdict'
  BY <1>1, <1>2 DEF UInv, OwnVerdict
<1>9. BuffersFit'
  <2>1. \A b \in Archives : narSize[b] \in Nat
    BY UnpackAssumption
  <2>2. Current' = Current
    BY DEF Current
  <2>3. \A b \in Archives : status'[b] \in {"done", "written"} => status[b] = status'[b]
    BY <1>2
  <2>4. decoders' \subseteq {b \in Current' : status'[b] = "decoding"}
    BY <1>2, <1>6, <2>2, First DEF UInv, BuffersFit
  <2>5. \A b \in Current' : filled' <= narSize[b]
    BY <2>1, <2>2, First
  <2> QED BY <2>3, <2>4, <2>5 DEF UInv, BuffersFit
<1> QED BY <1>3, <1>5, <1>7, <1>8, <1>9 DEF UInv

\* A piece that fits is put behind what is there.
LEMMA PieceKeeps ==
  ASSUME UInv, NEW a \in Current, NEW part \in Nat,
         status[a] = "decoding", Fits(a, part), filled' = filled + part,
         UNCHANGED <<status, queue, decoders, unpacked, blame>>
  PROVE  UInv'
<1>1. a \in Archives /\ \A b \in Current : b = a
  BY First
<1>2. UType'
  BY DEF UInv, UType
<1>3. Queued' /\ OwnVerdict'
  BY DEF UInv, Queued, OwnVerdict
<1>4. Awaited'
  <2>1. \A b \in Archives : status[b] # "loading"
    BY <1>1, First
  <2> QED BY <2>1 DEF Awaited
<1>5. BuffersFit'
  <2>1. \A b \in Current : narSize[b] = 0 \/ filled + part <= narSize[b]
    BY <1>1 DEF Fits
  <2> QED BY <2>1 DEF UInv, BuffersFit, Current
<1> QED BY <1>2, <1>3, <1>4, <1>5 DEF UInv

LEMMA DecompressKeeps ==
  ASSUME UInv, NEW a \in Archives, Decompress(a)
  PROVE  UInv'
<1>1. status[a] \in {"idle", "failed"} /\ \A i \in DOMAIN queue : queue[i] # a
  BY DEF Decompress, UInv, Queued, Underway
<1>2. /\ UNCHANGED <<filled, decoders, unpacked>>
      /\ blame' \in [Archives -> {"nothing", "bytes", "decoder"}]
      /\ \A b \in Archives : b # a => blame'[b] = blame[b]
  BY DEF Decompress, engine, Blame, UInv, UType
<1>3. CASE codec[a] = "none"
  <2>1. status' = [status EXCEPT ![a] = "done"] /\ queue' = queue
    BY <1>3 DEF Decompress
  <2>2. \A b \in Archives : status'[b] = IF b = a THEN "done" ELSE status[b]
    BY <2>1 DEF UInv, UType
  <2>3. UType'
    BY <1>2, <2>1 DEF UInv, UType, Settled
  <2>4. Queued'
    <3>1. \A i \in DOMAIN queue : queue[i] \in Archives
      BY DEF UInv, UType
    <3> QED BY <1>1, <2>1, <2>2, <3>1 DEF UInv, Queued, Underway
  <2>5. Awaited' /\ OwnVerdict'
    BY <1>2, <2>2 DEF UInv, Awaited, OwnVerdict
  <2>6. BuffersFit'
    BY <1>1, <1>2, <1>3, <2>1, <2>2 DEF UInv, BuffersFit, Current
  <2> QED BY <2>3, <2>4, <2>5, <2>6 DEF UInv
<1>4. CASE codec[a] # "none"
  <2>1. status' = [status EXCEPT ![a] = "waiting"] /\ queue' = Append(queue, a)
    BY <1>4 DEF Decompress
  <2>2. \A b \in Archives : status'[b] = IF b = a THEN "waiting" ELSE status[b]
    BY <2>1 DEF UInv, UType
  <2>3. /\ queue' \in Seq(Archives) /\ DOMAIN queue' = DOMAIN queue \cup {Len(queue) + 1}
        /\ \A i \in DOMAIN queue : queue'[i] = queue[i] /\ queue[i] \in Archives
        /\ queue'[Len(queue) + 1] = a
        /\ queue # << >> => Head(queue') = Head(queue)
    BY <2>1 DEF UInv, UType
  <2>4. UType'
    BY <1>2, <2>1, <2>3 DEF UInv, UType, Underway
  <2>5. Queued'
    <3>1. \A i \in DOMAIN queue' : i # 1 => status'[queue'[i]] = "waiting"
      BY <1>1, <2>2, <2>3 DEF UInv, Queued
    <3>2. \A i \in DOMAIN queue' : status'[queue'[i]] \in Underway
      BY <1>1, <2>2, <2>3 DEF UInv, Queued, Underway
    <3>3. \A i, j \in DOMAIN queue' : queue'[i] = queue'[j] => i = j
      BY <1>1, <2>3 DEF UInv, Queued
    <3>4. \A b \in Archives : status'[b] \in Underway => \E i \in DOMAIN queue' : queue'[i] = b
      BY <2>2, <2>3 DEF UInv, Queued
    <3> QED BY <3>1, <3>2, <3>3, <3>4 DEF Queued
  <2>6. Awaited' /\ OwnVerdict'
    BY <1>2, <2>2 DEF UInv, Awaited, OwnVerdict
  <2>7. BuffersFit'
    <3>1. \A b \in Archives : status'[b] \notin {"waiting"} => status[b] = status'[b]
      BY <2>2
    <3>2. \A b \in Current' : b = a \/ b \in Current
      <4>1. CASE queue = << >>
        BY <2>1, <4>1 DEF Current
      <4>2. CASE queue # << >>
        BY <2>3, <4>2 DEF Current
      <4> QED BY <4>1, <4>2
    <3>3. decoders' \subseteq {b \in Current' : status'[b] = "decoding"}
      <4>1. \A b \in decoders : b \in Current /\ status[b] = "decoding" /\ b # a
        BY <1>1 DEF UInv, BuffersFit
      <4>2. Current \subseteq Current'
        BY <2>1, <2>3 DEF Current
      <4> QED BY <1>2, <2>2, <4>1, <4>2, First
    <3>4. status'[a] = "waiting"
      BY <2>2
    <3>5. \A b \in Archives :
            codec[b] = "bzip2" /\ status'[b] \in {"done", "written"} => narSize[b] \in {0, unpacked'[b]}
      BY <1>2, <3>1 DEF UInv, BuffersFit
    <3>6. \A b \in Current' : narSize[b] = 0 \/ status'[b] # "decoding" \/ filled' <= narSize[b]
      BY <1>2, <3>1, <3>2, <3>4, First DEF UInv, BuffersFit
    <3> QED BY <3>3, <3>5, <3>6 DEF BuffersFit
  <2> QED BY <2>4, <2>5, <2>6, <2>7 DEF UInv
<1> QED BY <1>3, <1>4

LEMMA WriteKeeps ==
  ASSUME UInv, NEW a \in Archives, Write(a)
  PROVE  UInv'
<1>1. /\ status[a] = "done" /\ status' = [status EXCEPT ![a] = "written"]
      /\ UNCHANGED <<queue, filled, decoders, blame, unpacked>>
  BY DEF Write, engine
<1>2. \A b \in Archives : status'[b] = IF b = a THEN "written" ELSE status[b]
  BY <1>1 DEF UInv, UType
<1>3. UType'
  BY <1>1 DEF UInv, UType, Settled
<1>4. Queued'
  <2>1. \A i \in DOMAIN queue : queue[i] \in Archives /\ queue[i] # a
    BY <1>1 DEF UInv, UType, Queued, Underway
  <2> QED BY <1>1, <1>2, <2>1 DEF UInv, Queued, Underway
<1>5. Awaited' /\ OwnVerdict'
  BY <1>1, <1>2 DEF UInv, Awaited, OwnVerdict
<1>6. BuffersFit'
  BY <1>1, <1>2 DEF UInv, BuffersFit, Current
<1> QED BY <1>3, <1>4, <1>5, <1>6 DEF UInv

LEMMA DecodingKeeps ==
  ASSUME UInv, Decoding
  PROVE  UInv'
<1>1. PICK a \in Current :
        Start(a) \/ Loaded(a) \/ LoadFails(a) \/ NoDecoder(a) \/ Stream(a) \/ Push(a) \/ Finish(a)
  BY DEF Decoding
<1>2. a \in Archives
  BY First
<1> USE DEF Settled
<1>3. CASE Start(a)
  <2>1. CASE codec[a] = "bzip2" /\ module # "ready"
    BY <1>3, <2>1, StageKeeps DEF Start
  <2>2. CASE ~ (codec[a] = "bzip2" /\ module # "ready")
    BY <1>3, <2>2, StageKeeps DEF Start
  <2> QED BY <2>1, <2>2
<1>4. CASE Loaded(a)
  <2>1. filled = 0
    BY <1>2, <1>4 DEF Loaded, UInv, Awaited
  <2> QED BY <1>4, <2>1, StageKeeps DEF Loaded
<1>5. CASE LoadFails(a)
  <2>1. codec[a] = "bzip2"
    BY <1>2, <1>5 DEF LoadFails, UInv, Awaited
  <2> QED BY <1>5, <2>1, EndKeeps DEF LoadFails, UInv, UType
<1>9. CASE NoDecoder(a)
  BY <1>9, EndKeeps DEF NoDecoder, UInv, UType
<1>6. CASE Stream(a)
  <2>1. CASE Throw(a)
    BY <1>6, <2>1, EndKeeps DEF Stream, Throw, UInv, UType
  <2>2. CASE Settle(a, "done") /\ UNCHANGED blame
    <3>1. blame[a] \in {"nothing", "bytes", "decoder"}
      BY <1>2 DEF UInv, UType
    <3> QED BY <1>6, <2>2, <3>1, EndKeeps DEF Stream, UInv, UType
  <2> QED BY <1>6, <2>1, <2>2 DEF Stream
<1>7. CASE Push(a)
  <2>1. CASE Throw(a) /\ filled' = filled
    BY <1>7, <2>1, EndKeeps DEF Push, Throw, UInv, UType
  <2>2. ASSUME NEW part \in 0 .. MaxPart, Fits(a, part), filled' = filled + part,
               UNCHANGED <<status, queue, decoders, blame>>
        PROVE  UInv'
    BY <1>7, <2>2, PieceKeeps DEF Push
  <2> QED BY <1>7, <2>1, <2>2 DEF Push
<1>8. CASE Finish(a)
  <2>1. ASSUME NEW part \in 0 .. MaxPart, filled' = filled + part,
               narSize[a] \in {0, filled + part}, Settle(a, "done"),
               unpacked' = [unpacked EXCEPT ![a] = filled'], blame' = blame
        PROVE  UInv'
    <3>1. filled' \in Nat /\ unpacked'[a] = filled'
      BY <1>2, <2>1 DEF UInv, UType
    <3> QED BY <1>2, <2>1, <3>1, EndKeeps DEF UInv, UType
  <2>2. CASE Throw(a) /\ filled' \in Nat /\ unpacked' = unpacked
    BY <2>2, EndKeeps DEF Throw, UInv, UType
  <2>3. \A part \in 0 .. MaxPart : filled + part \in Nat
    BY DEF UInv, UType
  <2> QED BY <1>8, <2>1, <2>2, <2>3 DEF Finish, UInv, UType
<1> QED BY <1>1, <1>3, <1>4, <1>5, <1>6, <1>7, <1>8, <1>9

LEMMA StepU ==
  ASSUME UInv, [Next]_vars
  PROVE  UInv'
<1>1. CASE UNCHANGED vars
  BY <1>1 DEF vars, engine, UInv, UType, Queued, Awaited, OwnVerdict, BuffersFit, Current
<1> QED BY <1>1, DecodingKeeps, DecompressKeeps, WriteKeeps DEF Next

\* How archives stand in the queue of decodes, and what is known of each.
THEOREM Invariant == Spec => []UInv
BY InitU, StepU, PTL DEF Spec

\* An archive is called bad only for its own decode, never for the one it
\* waited behind or for a module of bzip2's that did not load (store.js,
\* serialize and decompress).
THEOREM VerdictIsOwn == Spec => []OwnVerdict
<1>1. UInv => OwnVerdict
  BY DEF UInv
<1> QED BY <1>1, Invariant, PTL

\* No bzip2 buffer is written past or handed on with bytes missing, and no
\* decoder is left behind in wasm memory (store.js, unbzip2).
THEOREM BuffersAreFull == Spec => []BuffersFit
<1>1. UInv => BuffersFit
  BY DEF UInv
<1> QED BY <1>1, Invariant, PTL
-----------------------------------------------------------------------------
(***************************************************************************)
(* Walks.  What is written differs from what was packed in every relative  *)
(* link, so the two walks along a path are in different places with        *)
(* different names left.  They come together again: from some name on of   *)
(* each, with no link before it, they are in the same place and have the   *)
(* same names left (AlikeFrom), and following the next link keeps that.    *)
(***************************************************************************)

\* Numbers have a least.
LEMMA LeastOfNaturals ==
  ASSUME NEW S \in SUBSET Nat, S # {}
  PROVE  \E x \in S : \A y \in S : x <= y
<1> DEFINE R == OpToRel(<, Nat)
<1>1. IsWellFoundedOn(R, Nat)
  BY NatLessThanWellFounded
<1>2. \A x, y \in Nat : x < y => <<x, y>> \in R
  BY DEF OpToRel
<1> HIDE DEF R
<1>3. PICK x \in S : \A y \in S : ~ (<<y, x>> \in R)
  BY <1>1, WFMin
<1>4. \A y \in S : ~ (y < x)
  BY <1>2, <1>3
<1>5. \A y \in S : x <= y
  BY <1>4, SMT
<1> QED BY <1>5

\* Induction up to a bound, over a set.
LEMMA UpTo ==
  ASSUME NEW m \in Nat, NEW S, 0 \in S, \A n \in 0 .. m : n \in S /\ n < m => n + 1 \in S
  PROVE  \A n \in 0 .. m : n \in S
<1> SUFFICES ASSUME NEW n \in 0 .. m, n \notin S PROVE FALSE
  OBVIOUS
<1>1. PICK x \in {k \in 0 .. m : k \notin S} : \A y \in {k \in 0 .. m : k \notin S} : x <= y
  <2>1. {k \in 0 .. m : k \notin S} \in SUBSET Nat /\ n \in {k \in 0 .. m : k \notin S}
    OBVIOUS
  <2> QED BY <2>1, LeastOfNaturals
<1>2. x # 0 /\ x - 1 \in 0 .. m /\ x - 1 < m /\ x - 1 + 1 = x
  BY <1>1
<1>3. x - 1 \in S
  BY <1>1, <1>2
<1> QED BY <1>1, <1>2, <1>3

\* One more place.
StepTo(place, names, n) ==
  IF names[n] = ".." THEN Front(place[n - 1]) ELSE Append(place[n - 1], names[n])

LEMMA SeqEqual ==
  ASSUME NEW S, NEW s \in Seq(S), NEW t \in Seq(S), Len(s) = Len(t), \A i \in 1 .. Len(s) : s[i] = t[i]
  PROVE  s = t
OBVIOUS

LEMMA FrontIs ==
  ASSUME NEW S, NEW s \in Seq(S)
  PROVE  /\ Front(s) \in Seq(S)
         /\ s = <<>> => Front(s) = <<>>
         /\ s # <<>> => Len(Front(s)) = Len(s) - 1
         /\ \A i \in 1 .. Len(s) - 1 : Front(s)[i] = s[i]
<1>1. Front(s) = SubSeq(s, 1, Len(s) - 1)
  BY DEF Front
<1>2. CASE s = <<>>
  <2>1. SubSeq(s, 1, Len(s) - 1) = <<>>
    BY <1>2
  <2> QED BY <1>1, <1>2, <2>1
<1>3. CASE s # <<>>
  <2>1. Len(s) \in Nat /\ Len(s) >= 1
    BY <1>3
  <2>2. SubSeq(s, 1, Len(s) - 1) \in Seq(S) /\ Len(SubSeq(s, 1, Len(s) - 1)) = Len(s) - 1
    BY <2>1
  <2>3. \A i \in 1 .. Len(s) - 1 : SubSeq(s, 1, Len(s) - 1)[i] = s[i]
    BY <2>1
  <2> QED BY <1>1, <1>3, <2>2, <2>3
<1> QED BY <1>2, <1>3

\* The places are defined by recursion; some function is so defined.
ArePlaces(place, dir, names) ==
  place = [n \in 0 .. Len(names) |->
             IF n = 0 THEN dir
             ELSE IF names[n] = ".." THEN Front(place[n - 1]) ELSE Append(place[n - 1], names[n])]

LEMMA PlacesExist ==
  ASSUME NEW S, NEW dir, NEW names \in Seq(S)
  PROVE  \E g : ArePlaces(g, dir, names)
<1> DEFINE M == Len(names)
           Good(g, m) == g[0] = dir /\ \A n \in 1 .. m : g[n] = StepTo(g, names, n)
           T == {m \in 0 .. M : \E g : Good(g, m)}
<1>1. M \in Nat
  OBVIOUS
<1>2. 0 \in T
  <2>1. Good([n \in {0} |-> dir], 0)
    OBVIOUS
  <2>2. 0 \in 0 .. M
    BY <1>1
  <2>3. \E g : Good(g, 0)
    <3> HIDE DEF Good
    <3> QED BY <2>1
  <2> HIDE DEF Good
  <2> QED BY <2>2, <2>3
<1>3. ASSUME NEW m \in 0 .. M, m \in T, m < M
      PROVE  m + 1 \in T
  <2>1. PICK g : Good(g, m)
    BY <1>3
  <2> DEFINE h == [n \in 0 .. m + 1 |-> IF n = m + 1 THEN StepTo(g, names, m + 1) ELSE g[n]]
  <2>2. \A n \in 0 .. m : h[n] = g[n]
    BY <1>1
  <2>3. h[m + 1] = StepTo(h, names, m + 1)
    BY <1>1, <2>2 DEF StepTo
  <2>4. \A n \in 1 .. m : h[n] = StepTo(h, names, n)
    <3> TAKE n \in 1 .. m
    <3>1. h[n] = g[n] /\ h[n - 1] = g[n - 1]
      BY <1>1, <2>2
    <3> HIDE DEF h
    <3> QED BY <2>1, <3>1 DEF StepTo
  <2>5. h[0] = dir
    BY <1>1, <2>1, <2>2
  <2>6. \A n \in 1 .. m + 1 : n \in 1 .. m \/ n = m + 1
    BY <1>1
  <2>7. m + 1 \in 0 .. M
    BY <1>1, <1>3
  <2> HIDE DEF h
  <2>8. Good(h, m + 1)
    BY <2>3, <2>4, <2>5, <2>6
  <2> HIDE DEF Good
  <2> QED BY <2>7, <2>8
<1>4. M \in T
  <2> HIDE DEF T
  <2>1. \A n \in 0 .. M : n \in T
    BY <1>1, <1>2, <1>3, UpTo
  <2> QED BY <1>1, <2>1
<1>5. PICK g : Good(g, M)
  BY <1>4
<1> DEFINE h == [n \in 0 .. M |-> g[n]]
<1>6. \A n \in 0 .. M : h[n] = IF n = 0 THEN dir ELSE StepTo(h, names, n)
  <2> TAKE n \in 0 .. M
  <2>1. CASE n = 0
    BY <1>5, <2>1
  <2>2. CASE n # 0
    <3>1. n \in 1 .. M /\ h[n] = g[n] /\ h[n - 1] = g[n - 1]
      BY <1>1, <2>2
    <3> QED BY <1>5, <2>2, <3>1 DEF StepTo
  <2> QED BY <2>1, <2>2
<1>7. h = [n \in 0 .. M |-> IF n = 0 THEN dir ELSE StepTo(h, names, n)]
  BY <1>6
<1> HIDE DEF h
<1>8. ArePlaces(h, dir, names)
  BY <1>7 DEF StepTo, ArePlaces
<1> QED BY <1>8

\* The places, one by one.
LEMMA PlacesFacts ==
  ASSUME NEW S, NEW dir \in Seq(S), NEW names \in Seq(S)
  PROVE  /\ Places(dir, names)[0] = dir
         /\ \A n \in 1 .. Len(names) : Places(dir, names)[n] = StepTo(Places(dir, names), names, n)
         /\ \A n \in 0 .. Len(names) : Places(dir, names)[n] \in Seq(S)
<1> DEFINE h == Places(dir, names)
<1>1. h = CHOOSE g : ArePlaces(g, dir, names)
  BY DEF Places, ArePlaces
<1> HIDE DEF h
<1>2. ArePlaces(h, dir, names)
  <2>1. \E g : ArePlaces(g, dir, names)
    BY PlacesExist
  <2> QED BY <1>1, <2>1, Zenon
<1>3. Len(names) \in Nat
  OBVIOUS
<1>4. h[0] = dir /\ \A n \in 1 .. Len(names) : h[n] = StepTo(h, names, n)
  <2>1. \A n \in 0 .. Len(names) :
          h[n] = IF n = 0 THEN dir
                 ELSE IF names[n] = ".." THEN Front(h[n - 1]) ELSE Append(h[n - 1], names[n])
    BY <1>2, Zenon DEF ArePlaces
  <2>2. \A n \in 1 .. Len(names) : n \in 0 .. Len(names) /\ n # 0
    BY <1>3
  <2>3. 0 \in 0 .. Len(names)
    BY <1>3
  <2> QED BY <2>1, <2>2, <2>3, Zenon DEF StepTo
<1> DEFINE T == {n \in 0 .. Len(names) : h[n] \in Seq(S)}
<1>5. 0 \in T
  BY <1>3, <1>4
<1>6. ASSUME NEW n \in 0 .. Len(names), n \in T, n < Len(names) PROVE n + 1 \in T
  <2>1. n + 1 \in 1 .. Len(names) /\ n + 1 - 1 = n /\ n + 1 \in 0 .. Len(names)
    BY <1>3, <1>6
  <2>2. h[n + 1] = IF names[n + 1] = ".." THEN Front(h[n]) ELSE Append(h[n], names[n + 1])
    BY <1>4, <2>1 DEF StepTo
  <2>3. names[n + 1] \in S /\ h[n] \in Seq(S)
    BY <1>6, <2>1
  <2>4. Front(h[n]) \in Seq(S) /\ Append(h[n], names[n + 1]) \in Seq(S)
    BY <2>3, FrontIs
  <2>5. h[n + 1] \in Seq(S)
    BY <2>2, <2>4
  <2> QED BY <2>1, <2>5
<1>7. \A n \in 0 .. Len(names) : n \in T
  <2> HIDE DEF T
  <2> QED BY <1>3, <1>5, <1>6, UpTo
<1> QED BY <1>4, <1>7 DEF h

\* Where names agree from some place on, so do the places.
Agree(S, d, a, i, e, b, j, m) ==
  /\ d \in Seq(S) /\ e \in Seq(S) /\ a \in Seq(S) /\ b \in Seq(S)
  /\ i \in Nat /\ j \in Nat /\ m \in Nat /\ i + m <= Len(a) /\ j + m <= Len(b)
  /\ Places(d, a)[i] = Places(e, b)[j]
  /\ \A k \in 1 .. m : a[i + k] = b[j + k]

LEMMA Along ==
  ASSUME NEW S, NEW d, NEW a, NEW i, NEW e, NEW b, NEW j, NEW m, Agree(S, d, a, i, e, b, j, m)
  PROVE  \A k \in 0 .. m : Places(d, a)[i + k] = Places(e, b)[j + k]
<1> USE DEF Agree
<1> DEFINE p == Places(d, a)
           q == Places(e, b)
           T == {k \in 0 .. m : p[i + k] = q[j + k]}
<1>1. Len(a) \in Nat /\ Len(b) \in Nat
  OBVIOUS
<1>2. /\ \A n \in 1 .. Len(a) : p[n] = StepTo(p, a, n)
      /\ \A n \in 1 .. Len(b) : q[n] = StepTo(q, b, n)
  BY PlacesFacts
<1> HIDE DEF p, q
<1>3. 0 \in T
  BY DEF p, q
<1>4. ASSUME NEW k \in 0 .. m, k \in T, k < m PROVE k + 1 \in T
  <2>1. /\ k + 1 \in 1 .. m /\ k + 1 \in 0 .. m
        /\ i + (k + 1) \in 1 .. Len(a) /\ j + (k + 1) \in 1 .. Len(b)
        /\ i + (k + 1) - 1 = i + k /\ j + (k + 1) - 1 = j + k
    BY <1>1, <1>4
  <2>2. p[i + (k + 1)] = StepTo(p, a, i + (k + 1)) /\ q[j + (k + 1)] = StepTo(q, b, j + (k + 1))
    BY <1>2, <2>1
  <2>3. p[i + k] = q[j + k] /\ a[i + (k + 1)] = b[j + (k + 1)]
    BY <1>4, <2>1
  <2>4. p[i + (k + 1)] = q[j + (k + 1)]
    BY <2>1, <2>2, <2>3 DEF StepTo
  <2> QED BY <2>1, <2>4
<1>5. \A k \in 0 .. m : k \in T
  <2> HIDE DEF T
  <2> QED BY <1>3, <1>4, UpTo
<1> QED BY <1>5 DEF p, q

\* The names that go up are the first, and not above the root.
Rises(S, dir, names, up, m) ==
  /\ dir \in Seq(S) /\ names \in Seq(S)
  /\ up \in Nat /\ m \in Nat /\ up <= Len(dir) /\ up + m <= Len(names)
  /\ \A n \in 1 .. up + m : names[n] = ".." <=> n <= up

\* Where names that rise so often, and then go down, come to.
Comes(S, place, dir, names, up, n) ==
  /\ place \in Seq(S) /\ Len(place) = Len(dir) - up + n
  /\ \A k \in 1 .. Len(dir) - up : place[k] = dir[k]
  /\ \A k \in 1 .. n : place[Len(dir) - up + k] = names[up + k]

\* Up as often as names say so, and then down.
LEMMA UpDown ==
  ASSUME NEW S, NEW dir, NEW names, NEW up, NEW m, Rises(S, dir, names, up, m)
  PROVE  /\ \A n \in 0 .. up : Places(dir, names)[n] = SubSeq(dir, 1, Len(dir) - n)
         /\ \A n \in 0 .. m : Comes(S, Places(dir, names)[up + n], dir, names, up, n)
<1> USE DEF Rises
<1> DEFINE p == Places(dir, names)
           D == Len(dir)
           M == Len(names)
<1>1. D \in Nat /\ M \in Nat /\ up + m <= M
  OBVIOUS
<1>2. p[0] = dir /\ \A n \in 1 .. M : p[n] = StepTo(p, names, n)
  BY PlacesFacts
<1> HIDE DEF p
<1>3. \A n \in 0 .. up : p[n] = SubSeq(dir, 1, D - n)
  <2> DEFINE T == {n \in 0 .. up : p[n] = SubSeq(dir, 1, D - n)}
  <2>1. 0 \in T
    BY <1>1, <1>2
  <2>2. ASSUME NEW n \in 0 .. up, n \in T, n < up PROVE n + 1 \in T
    <3>1. n + 1 \in 1 .. M /\ n + 1 <= up /\ n + 1 - 1 = n /\ n + 1 \in 0 .. up
      BY <1>1, <2>2
    <3>2. p[n + 1] = Front(p[n])
      BY <1>1, <1>2, <3>1 DEF StepTo
    <3>3. p[n] = SubSeq(dir, 1, D - n) /\ D - n \in 1 .. D
      BY <1>1, <2>2, <3>1
    <3>4. SubSeq(dir, 1, D - n) \in Seq(S) /\ Len(SubSeq(dir, 1, D - n)) = D - n
      BY <1>1, <3>3
    <3>5. Front(p[n]) = SubSeq(SubSeq(dir, 1, D - n), 1, D - n - 1)
      BY <3>3, <3>4 DEF Front
    <3>6. SubSeq(SubSeq(dir, 1, D - n), 1, D - n - 1) = SubSeq(dir, 1, D - n - 1)
      BY <1>1, <3>3
    <3>7. D - n - 1 = D - (n + 1)
      BY <1>1, <3>1
    <3> QED BY <3>1, <3>2, <3>5, <3>6, <3>7
  <2>3. \A n \in 0 .. up : n \in T
    <3> HIDE DEF T
    <3> QED BY <2>1, <2>2, UpTo
  <2> QED BY <2>3
<1> DEFINE B == D - up
           Down(n) == /\ p[up + n] \in Seq(S) /\ Len(p[up + n]) = B + n
                      /\ \A k \in 1 .. B : p[up + n][k] = dir[k]
                      /\ \A k \in 1 .. n : p[up + n][B + k] = names[up + k]
           T == {n \in 0 .. m : Down(n)}
<1>4. B \in Nat
  BY <1>1
<1>5. Down(0)
  <2>1. p[up + 0] = SubSeq(dir, 1, B)
    BY <1>1, <1>3
  <2> QED BY <1>1, <2>1
<1>6. ASSUME NEW n \in 0 .. m, Down(n), n < m PROVE Down(n + 1)
  <2>1. /\ up + (n + 1) \in 1 .. M /\ up + (n + 1) > up /\ up + (n + 1) - 1 = up + n
        /\ n + 1 \in 0 .. m /\ up + (n + 1) \in 1 .. up + m
    BY <1>1, <1>6
  <2>2. names[up + (n + 1)] # ".." /\ names[up + (n + 1)] \in S
    BY <1>1, <2>1
  <2>3. p[up + (n + 1)] = Append(p[up + n], names[up + (n + 1)])
    <3>1. p[up + (n + 1)] = StepTo(p, names, up + (n + 1))
      BY <1>2, <2>1
    <3> QED BY <2>1, <2>2, <3>1 DEF StepTo
  <2> DEFINE here == p[up + n]
             there == p[up + (n + 1)]
  <2> HIDE DEF B
  <2>4. /\ here \in Seq(S) /\ Len(here) = B + n
        /\ \A k \in 1 .. B : here[k] = dir[k]
        /\ \A k \in 1 .. n : here[B + k] = names[up + k]
    BY <1>6
  <2>5. there = Append(here, names[up + (n + 1)])
    BY <2>3
  <2> HIDE DEF here, there
  <2>6. there \in Seq(S) /\ Len(there) = B + (n + 1)
    BY <1>4, <2>2, <2>4, <2>5
  <2>7. \A k \in 1 .. B : there[k] = dir[k]
    BY <1>4, <2>2, <2>4, <2>5
  <2>8. \A k \in 1 .. n + 1 : there[B + k] = names[up + k]
    <3> TAKE k \in 1 .. n + 1
    <3>1. CASE k = n + 1
      BY <1>4, <2>2, <2>4, <2>5, <3>1
    <3>2. CASE k \in 1 .. n
      BY <1>4, <2>2, <2>4, <2>5, <3>2
    <3> QED BY <1>4, <3>1, <3>2
  <2> QED BY <2>6, <2>7, <2>8 DEF there
<1>7. \A n \in 0 .. m : n \in T
  <2>1. 0 \in T
    BY <1>4, <1>5
  <2>2. ASSUME NEW n \in 0 .. m, n \in T, n < m PROVE n + 1 \in T
    <3>1. n + 1 \in 0 .. m
      BY <1>4, <2>2
    <3>2. Down(n)
      BY <2>2
    <3>3. Down(n + 1)
      BY <1>6, <2>2, <3>2
    <3> HIDE DEF Down
    <3> QED BY <3>1, <3>3
  <2> HIDE DEF T
  <2> QED BY <1>4, <2>1, <2>2, UpTo
<1>8. \A n \in 0 .. m : Down(n)
  <2> HIDE DEF Down
  <2> QED BY <1>7
<1>9. \A n \in 0 .. m : Comes(S, p[up + n], dir, names, up, n)
  BY <1>8 DEF Comes
<1> QED BY <1>3, <1>9 DEF p

\* The names of walks, and walks.
N == Names \cup {".."}
States == [at : Seq(N), left : Seq(N)]

\* f is what is written of g.
Written(f, g) ==
  /\ DOMAIN f = DOMAIN g /\ DOMAIN g \subseteq Seq(Names) \ {<<>>}
  /\ \A q \in DOMAIN g :
       /\ f[q].type = g[q].type
       /\ \A n \in 0 .. Len(q) - 1 :
            SubSeq(q, 1, n) \in DOMAIN g => g[SubSeq(q, 1, n)].type # "symlink"
       /\ g[q].type = "symlink" =>
            /\ g[q].target.absolute \in BOOLEAN
            /\ g[q].target.names \in Seq(N)
            /\ f[q].target = [absolute |-> TRUE, names |-> absoluteTarget(q, g[q].target)]
            /\ ~ g[q].target.absolute =>
                 \E up \in 0 .. Len(q) - 1 : \A i \in DOMAIN g[q].target.names :
                   g[q].target.names[i] = ".." <=> i <= up

\* No link is met before so many names, and from there on they are alike.
AlikeFrom(f, g, s, t, i, j) ==
  /\ Written(f, g) /\ s \in States /\ t \in States
  /\ i \in 0 .. Len(s.left) /\ j \in 0 .. Len(t.left)
  /\ Len(s.left) - i = Len(t.left) - j
  /\ Places(s.at, s.left)[i] = Places(t.at, t.left)[j]
  /\ \A k \in 1 .. Len(s.left) - i : s.left[i + k] = t.left[j + k]
  /\ \A k \in Met(f, s) : k > i
  /\ \A k \in Met(g, t) : k > j

Alike(f, g, s, t) == \E i, j \in Nat : AlikeFrom(f, g, s, t, i, j)

LEMMA MinIs ==
  ASSUME NEW S \in SUBSET Nat, S # {}
  PROVE  Min(S) \in S /\ \A y \in S : Min(S) <= y
<1>1. \E x \in S : \A y \in S : x <= y
  BY LeastOfNaturals
<1> QED BY <1>1, Zenon DEF Min

\* From there on they are in the same places, and meet the same links.
Abreast(f, g, s, t, i, j) ==
  /\ \A k \in 0 .. Len(s.left) - i : Places(s.at, s.left)[i + k] = Places(t.at, t.left)[j + k]
  /\ \A k \in 1 .. Len(s.left) - i : i + k \in Met(f, s) <=> j + k \in Met(g, t)
  /\ \A k \in Met(f, s) : k - i \in 1 .. Len(s.left) - i
  /\ \A k \in Met(g, t) : k - j \in 1 .. Len(s.left) - i

\* The same link is met first, or none.
SameFirst(f, g, s, t, i, j) ==
  /\ Met(f, s) = {} <=> Met(g, t) = {}
  /\ Met(f, s) # {} =>
       \E k \in 1 .. Len(s.left) - i :
         /\ Min(Met(f, s)) = i + k /\ i + k \in Met(f, s)
         /\ Min(Met(g, t)) = j + k /\ j + k \in Met(g, t)

LEMMA SameMet ==
  ASSUME NEW f, NEW g, NEW s, NEW t, NEW i, NEW j, AlikeFrom(f, g, s, t, i, j)
  PROVE  Abreast(f, g, s, t, i, j)
<1> DEFINE m == Len(s.left) - i
<1>1. /\ s.at \in Seq(N) /\ s.left \in Seq(N) /\ t.at \in Seq(N) /\ t.left \in Seq(N)
      /\ Len(s.left) \in Nat /\ Len(t.left) \in Nat
      /\ DOMAIN s.left = 1 .. Len(s.left) /\ DOMAIN t.left = 1 .. Len(t.left)
  BY DEF States, AlikeFrom
<1>2. i \in Nat /\ j \in Nat /\ m \in Nat /\ i + m = Len(s.left) /\ j + m = Len(t.left)
  BY <1>1 DEF AlikeFrom
<1>3. \A k \in 1 .. m : s.left[i + k] = t.left[j + k]
  BY DEF AlikeFrom
<1>4. \A k \in 0 .. m : Places(s.at, s.left)[i + k] = Places(t.at, t.left)[j + k]
  <2>1. Places(s.at, s.left)[i] = Places(t.at, t.left)[j]
    BY DEF AlikeFrom
  <2>2. i + m <= Len(s.left) /\ j + m <= Len(t.left)
    BY <1>1, <1>2
  <2>3. Agree(N, s.at, s.left, i, t.at, t.left, j, m)
    BY <1>1, <1>2, <1>3, <2>1, <2>2 DEF Agree
  <2> QED BY <2>3, Along
<1>5. ASSUME NEW k \in 1 .. m PROVE i + k \in Met(f, s) <=> j + k \in Met(g, t)
  <2>1. i + k \in DOMAIN s.left /\ j + k \in DOMAIN t.left /\ k \in 0 .. m
    BY <1>1, <1>2
  <2>2. s.left[i + k] = t.left[j + k] /\ Places(s.at, s.left)[i + k] = Places(t.at, t.left)[j + k]
    BY <1>3, <1>4, <2>1
  <2>3. DOMAIN f = DOMAIN g /\ \A q \in DOMAIN g : f[q].type = g[q].type
    BY DEF Written, AlikeFrom
  <2> QED BY <2>1, <2>2, <2>3, Zenon DEF Met
<1>6. \A k \in Met(f, s) : k - i \in 1 .. m
  <2>1. \A k \in Met(f, s) : k \in 1 .. Len(s.left) /\ k > i
    BY <1>1 DEF Met, AlikeFrom
  <2> QED BY <1>1, <1>2, <2>1
<1>7. \A k \in Met(g, t) : k - j \in 1 .. m
  <2>1. \A k \in Met(g, t) : k \in 1 .. Len(t.left) /\ k > j
    BY <1>1 DEF Met, AlikeFrom
  <2> QED BY <1>1, <1>2, <2>1
<1> QED BY <1>4, <1>5, <1>6, <1>7 DEF Abreast

LEMMA FirstMet ==
  ASSUME NEW f, NEW g, NEW s, NEW t, NEW i, NEW j, AlikeFrom(f, g, s, t, i, j)
  PROVE  SameFirst(f, g, s, t, i, j)
<1> DEFINE m == Len(s.left) - i
           A == Met(f, s)
           B == Met(g, t)
<1>1. /\ Len(s.left) \in Nat /\ Len(t.left) \in Nat
      /\ DOMAIN s.left = 1 .. Len(s.left) /\ DOMAIN t.left = 1 .. Len(t.left)
  BY DEF States, AlikeFrom
<1>2. i \in Nat /\ j \in Nat /\ m \in Nat
  BY <1>1 DEF AlikeFrom
<1>3. A \in SUBSET Nat /\ B \in SUBSET Nat
  BY <1>1 DEF Met
<1>4. /\ \A k \in 1 .. m : i + k \in A <=> j + k \in B
      /\ \A k \in A : k - i \in 1 .. m
      /\ \A k \in B : k - j \in 1 .. m
  BY SameMet DEF Abreast
<1> HIDE DEF m, A, B
<1>5. \A k \in A : j + (k - i) \in B
  <2> TAKE k \in A
  <2>1. k - i \in 1 .. m /\ i + (k - i) = k
    BY <1>2, <1>3, <1>4
  <2> QED BY <1>4, <2>1
<1>6. \A k \in B : i + (k - j) \in A
  <2> TAKE k \in B
  <2>1. k - j \in 1 .. m /\ j + (k - j) = k
    BY <1>2, <1>3, <1>4
  <2> QED BY <1>4, <2>1
<1>7. A = {} <=> B = {}
  BY <1>5, <1>6
<1>8. ASSUME A # {}
      PROVE  \E k \in 1 .. m : Min(A) = i + k /\ i + k \in A /\ Min(B) = j + k /\ j + k \in B
  <2>1. Min(A) \in A /\ \A y \in A : Min(A) <= y
    BY <1>3, <1>8, MinIs
  <2>2. Min(B) \in B /\ \A y \in B : Min(B) <= y
    BY <1>3, <1>7, <1>8, MinIs
  <2>3. Min(A) \in Nat /\ Min(B) \in Nat
    BY <1>3, <2>1, <2>2
  <2>4. j + (Min(A) - i) \in B /\ i + (Min(B) - j) \in A
    BY <1>5, <1>6, <2>1, <2>2
  <2>5. Min(B) <= j + (Min(A) - i) /\ Min(A) <= i + (Min(B) - j)
    BY <2>1, <2>2, <2>4
  <2>6. PICK k \in 1 .. m : k = Min(A) - i
    BY <1>4, <2>1
  <2>7. Min(A) = i + k /\ Min(B) = j + k
    BY <1>2, <2>3, <2>5, <2>6
  <2> QED BY <2>1, <2>2, <2>7
<1> QED BY <1>7, <1>8 DEF m, A, B, SameFirst

\* The walks go on from a relative link, as it is written and as it was packed.
Turned(f, g, q, rest, s, t) ==
  /\ Written(f, g) /\ q \in DOMAIN g /\ g[q].type = "symlink" /\ ~ g[q].target.absolute
  /\ rest \in Seq(N)
  /\ s = [at |-> <<>>, left |-> absoluteTarget(q, g[q].target) \o rest]
  /\ t = [at |-> Front(q), left |-> g[q].target.names \o rest]

\* From where the target no longer goes up, they are in the same place: what is
\* walked before, as it is written, are the directories the link is in.
LEMMA RelativeAlike ==
  ASSUME NEW f, NEW g, NEW q, NEW rest, NEW s, NEW t, Turned(f, g, q, rest, s, t)
  PROVE  s \in States /\ t \in States /\ Alike(f, g, s, t)
<1> DEFINE dir == Front(q)
           names == g[q].target.names
           M == Len(names)
           D == Len(dir)
           whole == absoluteTarget(q, g[q].target)
<1>1. Written(f, g) /\ q \in DOMAIN g /\ g[q].type = "symlink" /\ ~ g[q].target.absolute
  BY DEF Turned
<1>2. /\ q \in Seq(N) /\ q # <<>> /\ Len(q) \in Nat
      /\ \A n \in 1 .. Len(q) : q[n] # ".."
  <2>1. q \in Seq(Names) /\ q # <<>>
    BY DEF Written, Turned
  <2>2. \A n \in 1 .. Len(q) : q[n] \in Names
    BY <2>1
  <2> QED BY <2>1, <2>2, UnpackAssumption DEF N
<1>3. /\ dir \in Seq(N) /\ D \in Nat /\ D = Len(q) - 1
      /\ \A k \in 1 .. D : dir[k] = q[k]
  BY <1>2, FrontIs
<1>4. names \in Seq(N) /\ M \in Nat /\ DOMAIN names = 1 .. M
  <2>1. names \in Seq(N)
    BY <1>1 DEF Written
  <2> HIDE DEF names
  <2> QED BY <2>1
<1>5. whole = Places(dir, names)[M]
  BY DEF absoluteTarget, Place, Turned
<1>6. PICK up \in Nat : up <= D /\ up <= M /\ \A n \in 1 .. M : names[n] = ".." <=> n <= up
  <2>1. PICK w \in 0 .. Len(q) - 1 : \A n \in DOMAIN names : names[n] = ".." <=> n <= w
    BY <1>1 DEF Written
  <2> HIDE DEF M, D, names
  <2>2. CASE w <= M
    BY <1>2, <1>3, <1>4, <2>1, <2>2
  <2>3. CASE w > M
    <3>1. M <= D /\ \A n \in 1 .. M : names[n] = ".." <=> n <= M
      BY <1>2, <1>3, <1>4, <2>1, <2>3
    <3> QED BY <1>4, <3>1
  <2> QED BY <1>2, <1>4, <2>1, <2>2, <2>3
<1> HIDE DEF dir, names, M, D, whole
<1> DEFINE B == D - up
<1>7. B \in Nat /\ up + (M - up) = M /\ M - up \in Nat
  BY <1>3, <1>4, <1>6
<1>8. /\ whole \in Seq(N) /\ Len(whole) = B + (M - up)
      /\ \A k \in 1 .. B : whole[k] = q[k]
      /\ \A k \in 1 .. M - up : whole[B + k] = names[up + k]
  <2>1. Rises(N, dir, names, up, M - up)
    BY <1>3, <1>4, <1>6, <1>7 DEF Rises, M, D
  <2>2. M - up \in 0 .. M - up
    BY <1>7
  <2>3. Comes(N, Places(dir, names)[up + (M - up)], dir, names, up, M - up)
    BY <2>1, <2>2, UpDown
  <2>4. whole = Places(dir, names)[up + (M - up)]
    BY <1>5, <1>7
  <2>5. /\ whole \in Seq(N) /\ Len(whole) = B + (M - up)
        /\ \A k \in 1 .. B : whole[k] = dir[k]
        /\ \A k \in 1 .. M - up : whole[B + k] = names[up + k]
    BY <2>3, <2>4 DEF D, Comes
  <2>6. \A k \in 1 .. B : k \in 1 .. D
    BY <1>3, <1>6
  <2> HIDE DEF B
  <2>7. \A k \in 1 .. B : whole[k] = q[k]
    BY <1>3, <2>5, <2>6
  <2> QED BY <2>5, <2>7
<1> DEFINE R == Len(rest)
<1>9. rest \in Seq(N) /\ R \in Nat
  BY DEF Turned
<1> HIDE DEF B
<1>10. s.at = <<>> /\ s.left = whole \o rest /\ t.at = dir /\ t.left = names \o rest
  BY DEF whole, dir, names, Turned
<1>11. s.left \in Seq(N) /\ Len(s.left) = B + (M - up) + R
  <2>1. s.left \in Seq(N)
    BY <1>8, <1>9, <1>10
  <2>2. Len(s.left) = Len(whole) + R
    <3>1. whole \in Seq(N)
      BY <1>8
    <3> QED BY <1>9, <1>10, <3>1
  <2> QED BY <1>8, <2>1, <2>2
<1>12. /\ \A k \in 1 .. B + (M - up) : s.left[k] = whole[k]
       /\ \A k \in 1 .. R : s.left[B + (M - up) + k] = rest[k]
  <2> DEFINE W == B + (M - up)
  <2>1. W = Len(whole) /\ W \in Nat
    BY <1>7, <1>8
  <2> HIDE DEF W
  <2>2. \A k \in 1 .. W : s.left[k] = whole[k]
    BY <1>8, <1>9, <1>10, <2>1
  <2>3. \A k \in 1 .. R : s.left[W + k] = rest[k]
    BY <1>8, <1>9, <1>10, <2>1
  <2> QED BY <2>2, <2>3 DEF W
<1>13. t.left \in Seq(N) /\ Len(t.left) = M + R
  <2>1. t.left \in Seq(N)
    BY <1>4, <1>9, <1>10
  <2>2. Len(t.left) = M + R
    BY <1>4, <1>9, <1>10 DEF M
  <2> QED BY <2>1, <2>2
<1>14. /\ \A k \in 1 .. M : t.left[k] = names[k]
       /\ \A k \in 1 .. R : t.left[M + k] = rest[k]
  <2>1. \A k \in 1 .. M : t.left[k] = names[k]
    BY <1>4, <1>9, <1>10 DEF M
  <2>2. \A k \in 1 .. R : t.left[M + k] = rest[k]
    BY <1>4, <1>9, <1>10 DEF M
  <2> QED BY <2>1, <2>2
<1> HIDE DEF R
<1>15. /\ Len(s.left) - B = (M - up) + R /\ Len(t.left) - up = (M - up) + R
       /\ B \in 0 .. Len(s.left) /\ up \in 0 .. Len(t.left)
  BY <1>4, <1>6, <1>7, <1>9, <1>11, <1>13
<1>16. ASSUME NEW k \in 1 .. (M - up) + R PROVE s.left[B + k] = t.left[up + k]
  <2>1. CASE k <= M - up
    <3>1. B + k \in 1 .. B + (M - up) /\ up + k \in 1 .. M /\ k \in 1 .. M - up
      BY <1>4, <1>6, <1>7, <2>1
    <3> QED BY <1>8, <1>12, <1>14, <3>1
  <2>2. CASE k > M - up
    <3>1. /\ k - (M - up) \in 1 .. R
          /\ B + k = B + (M - up) + (k - (M - up))
          /\ up + k = M + (k - (M - up))
      BY <1>4, <1>6, <1>7, <1>9, <2>2
    <3>2. s.left[B + k] = rest[k - (M - up)]
      BY <1>12, <3>1
    <3>3. t.left[up + k] = rest[k - (M - up)]
      BY <1>14, <3>1
    <3> QED BY <3>2, <3>3
  <2> QED BY <1>7, <2>1, <2>2
<1>17. ASSUME NEW n \in 0 .. B PROVE Places(s.at, s.left)[n] = SubSeq(q, 1, n)
  <2>1. \A k \in 1 .. B : s.left[k] = q[k] /\ s.left[k] # ".."
    <3> TAKE k \in 1 .. B
    <3>1. k \in 1 .. B + (M - up) /\ k \in 1 .. Len(q)
      BY <1>2, <1>3, <1>6, <1>7 DEF B
    <3> QED BY <1>2, <1>8, <1>12, <3>1
  <2>2. Rises(N, s.at, s.left, 0, B)
    <3>1. s.at \in Seq(N) /\ Len(s.at) = 0
      BY <1>10
    <3>2. \A k \in 1 .. 0 + B : s.left[k] = ".." <=> k <= 0
      BY <1>7, <2>1
    <3>3. 0 + B <= Len(s.left)
      BY <1>7, <1>9, <1>11
    <3> QED BY <1>7, <1>11, <3>1, <3>2, <3>3 DEF Rises
  <2>3. PICK zero \in Nat : zero = 0
    OBVIOUS
  <2>4. Rises(N, s.at, s.left, zero, B)
    BY <2>2, <2>3
  <2>5. Comes(N, Places(s.at, s.left)[zero + n], s.at, s.left, zero, n)
    BY <2>4, UpDown
  <2> DEFINE place == Places(s.at, s.left)[n]
  <2>6. n \in Nat /\ n <= Len(q)
    BY <1>2, <1>3, <1>6, <1>7 DEF B
  <2>7. Len(s.at) = 0
    BY <1>10
  <2>8. place \in Seq(N) /\ Len(place) = n /\ \A k \in 1 .. n : place[k] = s.left[k]
    BY <2>5, <2>6, <2>7, <2>3 DEF Comes
  <2>9. SubSeq(q, 1, n) \in Seq(N) /\ Len(SubSeq(q, 1, n)) = n
    BY <1>2, <2>6
  <2>10. \A k \in 1 .. n : SubSeq(q, 1, n)[k] = q[k]
    BY <1>2, <2>6
  <2> HIDE DEF place
  <2>11. \A k \in 1 .. n : place[k] = SubSeq(q, 1, n)[k]
    <3>1. \A k \in 1 .. n : k \in 1 .. B
      BY <1>7
    <3> QED BY <2>1, <2>8, <2>10, <3>1
  <2>12. place = SubSeq(q, 1, n)
    BY <2>8, <2>9, <2>11, SeqEqual
  <2> QED BY <2>12 DEF place
<1>18. Places(t.at, t.left)[up] = SubSeq(q, 1, B)
  <2>1. Rises(N, t.at, t.left, up, 0)
    <3>1. \A k \in 1 .. up + 0 : t.left[k] = ".." <=> k <= up
      <4> TAKE k \in 1 .. up + 0
      <4>1. k \in 1 .. M /\ k <= up
        BY <1>4, <1>6
      <4> QED BY <1>6, <1>14, <4>1
    <3>2. up + 0 <= Len(t.left) /\ up <= Len(t.at)
      BY <1>4, <1>6, <1>9, <1>10, <1>13 DEF D
    <3> QED BY <1>3, <1>6, <1>10, <1>13, <3>1, <3>2 DEF Rises
  <2>2. up \in 0 .. up
    OBVIOUS
  <2>3. Places(t.at, t.left)[up] = SubSeq(dir, 1, D - up)
    <3>1. \A l \in 0 .. up : Places(t.at, t.left)[l] = SubSeq(t.at, 1, Len(t.at) - l)
      BY <2>1, UpDown
    <3> QED BY <1>10, <2>2, <3>1 DEF D
  <2>4. dir = SubSeq(q, 1, Len(q) - 1)
    BY DEF dir, Front
  <2>5. SubSeq(SubSeq(q, 1, Len(q) - 1), 1, B) = SubSeq(q, 1, B)
    BY <1>2, <1>3, <1>6, <1>7 DEF B
  <2> QED BY <2>3, <2>4, <2>5 DEF B
<1>19. \A k \in Met(f, s) : k > B
  <2> SUFFICES ASSUME NEW k \in Met(f, s), k <= B PROVE FALSE
    <3>1. \A k \in Met(f, s) : k \in 1 .. Len(s.left)
      BY <1>11 DEF Met
    <3> QED BY <1>7, <1>11, <3>1
  <2>1. k \in 1 .. Len(s.left)
    BY <1>11 DEF Met
  <2>2. k \in 0 .. B /\ k \in 0 .. Len(q) - 1
    BY <1>2, <1>3, <1>6, <1>7, <1>11, <2>1 DEF B
  <2>3. Places(s.at, s.left)[k] \in DOMAIN f /\ f[Places(s.at, s.left)[k]].type = "symlink"
    BY DEF Met
  <2>4. SubSeq(q, 1, k) \in DOMAIN g /\ g[SubSeq(q, 1, k)].type = "symlink"
    BY <1>17, <2>2, <2>3 DEF Written, Turned
  <2> QED BY <2>2, <2>4 DEF Written, Turned
<1>20. \A k \in Met(g, t) : k > up
  <2> TAKE k \in Met(g, t)
  <2>1. k \in 1 .. Len(t.left) /\ t.left[k] # ".."
    BY <1>13 DEF Met
  <2>2. CASE k <= up
    <3>1. k \in 1 .. M
      BY <1>4, <1>6, <1>13, <2>1, <2>2
    <3> QED BY <1>6, <1>14, <2>1, <2>2, <3>1
  <2>3. k \in Nat
    BY <1>13, <2>1
  <2> QED BY <2>2, <2>3
<1>21. B \in 0 .. B
  BY <1>7
<1>22. s \in States /\ t \in States
  <2>1. s = [at |-> s.at, left |-> s.left] /\ t = [at |-> t.at, left |-> t.left]
    BY DEF Turned
  <2>2. s.at \in Seq(N)
    BY <1>10
  <2> QED BY <1>3, <1>10, <1>11, <1>13, <2>1, <2>2 DEF States
<1>23. AlikeFrom(f, g, s, t, B, up)
  BY <1>15, <1>16, <1>17, <1>18, <1>19, <1>20, <1>21, <1>22, <1>1 DEF AlikeFrom
<1> QED BY <1>6, <1>7, <1>23, <1>22 DEF Alike

\* From two walks that are in the same place with the same names left, two such.
LEMMA SameAlike ==
  ASSUME NEW f, NEW g, Written(f, g), NEW s \in States
  PROVE  Alike(f, g, s, s)
<1>1. s.left \in Seq(N) /\ Len(s.left) \in Nat /\ DOMAIN s.left = 1 .. Len(s.left)
  BY DEF States
<1>2. \A k \in Met(f, s) : k > 0
  BY <1>1 DEF Met
<1>3. \A k \in Met(g, s) : k > 0
  BY <1>1 DEF Met
<1>4. AlikeFrom(f, g, s, s, 0, 0)
  BY <1>1, <1>2, <1>3 DEF AlikeFrom
<1> QED BY <1>4 DEF Alike

\* What is left of both.
LEMMA RestIs ==
  ASSUME NEW S, NEW a \in Seq(S), NEW b \in Seq(S), NEW i \in 0 .. Len(a), NEW j \in 0 .. Len(b),
         Len(a) - i = Len(b) - j, \A k \in 1 .. Len(a) - i : a[i + k] = b[j + k]
  PROVE  /\ SubSeq(a, i + 1, Len(a)) = SubSeq(b, j + 1, Len(b))
         /\ SubSeq(a, i + 1, Len(a)) \in Seq(S)
<1> DEFINE x == SubSeq(a, i + 1, Len(a))
           y == SubSeq(b, j + 1, Len(b))
           n == Len(a) - i
<1>1. n \in Nat /\ i \in Nat /\ j \in Nat
  OBVIOUS
<1>2. x \in Seq(S) /\ Len(x) = n /\ y \in Seq(S) /\ Len(y) = n
  OBVIOUS
<1>3. \A k \in 1 .. n : x[k] = a[i + k]
  OBVIOUS
<1>4. \A k \in 1 .. n : y[k] = b[j + k]
  OBVIOUS
<1> HIDE DEF x, y, n
<1>5. \A k \in 1 .. n : x[k] = y[k]
  BY <1>3, <1>4 DEF n
<1>6. x = y
  BY <1>2, <1>5, SeqEqual
<1> QED BY <1>2, <1>6 DEF x, y

LEMMA FollowAlike ==
  ASSUME NEW f, NEW g, NEW s, NEW t, Alike(f, g, s, t)
  PROVE  /\ Follow(f, s) \in States /\ Follow(g, t) \in States
         /\ Alike(f, g, Follow(f, s), Follow(g, t))
<1>1. PICK i \in Nat, j \in Nat : AlikeFrom(f, g, s, t, i, j)
  BY DEF Alike
<1>2. /\ s.left \in Seq(N) /\ t.left \in Seq(N) /\ Len(s.left) \in Nat /\ Len(t.left) \in Nat
  BY <1>1 DEF States, AlikeFrom
<1>3. Written(f, g) /\ s \in States /\ t \in States
  BY <1>1 DEF AlikeFrom
<1>4. SameFirst(f, g, s, t, i, j) /\ Abreast(f, g, s, t, i, j)
  BY <1>1, FirstMet, SameMet
<1>5. CASE Met(f, s) = {}
  <2>1. Met(g, t) = {}
    BY <1>5, <1>4 DEF SameFirst
  <2>2. Follow(f, s) = s /\ Follow(g, t) = t
    BY <1>5, <2>1 DEF Follow
  <2> QED BY <1>3, <2>2
<1>6. CASE Met(f, s) # {}
  <2>1. Met(g, t) # {}
    BY <1>6, <1>4 DEF SameFirst
  <2>2. PICK k \in 1 .. Len(s.left) - i :
          /\ Min(Met(f, s)) = i + k /\ i + k \in Met(f, s)
          /\ Min(Met(g, t)) = j + k /\ j + k \in Met(g, t)
    BY <1>6, <1>4 DEF SameFirst
  <2> DEFINE q == Places(s.at, s.left)[i + k]
             rest == SubSeq(s.left, i + k + 1, Len(s.left))
  <2>3. i \in 0 .. Len(s.left) /\ j \in 0 .. Len(t.left) /\ Len(s.left) - i = Len(t.left) - j
    BY <1>1 DEF AlikeFrom
  <2>4. k \in Nat /\ k \in 0 .. Len(s.left) - i
    BY <1>2
  <2>5. q = Places(t.at, t.left)[j + k]
    BY <1>4, <2>4 DEF Abreast
  <2>6. q \in DOMAIN g /\ f[q].type = "symlink" /\ g[q].type = "symlink"
    BY <1>3, <2>2, <2>5 DEF Met, Written
  <2>7. rest = SubSeq(t.left, j + k + 1, Len(t.left)) /\ rest \in Seq(N)
    <3>1. PICK a \in Seq(N), b \in Seq(N) : a = s.left /\ b = t.left
      BY <1>2
    <3>2. PICK x \in 0 .. Len(a), y \in 0 .. Len(b) : x = i + k /\ y = j + k
      BY <1>2, <2>3, <2>4, <3>1
    <3>3. Len(a) - x = Len(b) - y
      BY <1>2, <2>3, <2>4, <3>1, <3>2
    <3>4. \A n \in 1 .. Len(a) - x : a[x + n] = b[y + n]
      <4> TAKE n \in 1 .. Len(a) - x
      <4>1. k + n \in 1 .. Len(s.left) - i
        BY <1>2, <2>3, <2>4, <3>1, <3>2
      <4>2. s.left[i + (k + n)] = t.left[j + (k + n)]
        BY <1>1, <4>1 DEF AlikeFrom
      <4>3. x + n = i + (k + n) /\ y + n = j + (k + n)
        BY <2>4, <3>2, <1>2, <2>3, <3>1
      <4> QED BY <3>1, <4>2, <4>3
    <3>5. /\ SubSeq(a, x + 1, Len(a)) = SubSeq(b, y + 1, Len(b))
          /\ SubSeq(a, x + 1, Len(a)) \in Seq(N)
      BY <3>3, <3>4, RestIs
    <3> QED BY <3>1, <3>2, <3>5
  <2>8. /\ g[q].target.absolute \in BOOLEAN
        /\ f[q].target = [absolute |-> TRUE, names |-> absoluteTarget(q, g[q].target)]
        /\ g[q].target.names \in Seq(N)
    BY <1>3, <2>6 DEF Written
  <2> HIDE DEF q, rest
  <2>9. Follow(f, s) = [at |-> <<>>, left |-> absoluteTarget(q, g[q].target) \o rest]
    <3>1. Follow(f, s) = [at |-> IF f[q].target.absolute THEN <<>> ELSE Front(q),
                          left |-> f[q].target.names \o rest]
      BY <1>6, <2>2, Zenon DEF Follow, q, rest
    <3>2. f[q].target.absolute /\ f[q].target.names = absoluteTarget(q, g[q].target)
      BY <2>8
    <3> QED BY <3>1, <3>2, Zenon
  <2>10. Follow(g, t) = [at |-> IF g[q].target.absolute THEN <<>> ELSE Front(q),
                         left |-> g[q].target.names \o rest]
    BY <2>1, <2>2, <2>5, <2>7, Zenon DEF Follow
  <2>11. CASE g[q].target.absolute
    <3>1. absoluteTarget(q, g[q].target) = g[q].target.names
      BY <2>11 DEF absoluteTarget
    <3>2. PICK x \in Seq(N) : x = g[q].target.names \o rest
      <4>1. PICK a \in Seq(N), b \in Seq(N) : a = g[q].target.names /\ b = rest
        BY <2>7, <2>8
      <4>2. a \o b \in Seq(N)
        OBVIOUS
      <4> QED BY <4>1, <4>2
    <3>3. Follow(f, s) = [at |-> <<>>, left |-> x] /\ Follow(g, t) = [at |-> <<>>, left |-> x]
      <4>1. Follow(f, s) = [at |-> <<>>, left |-> x]
        BY <2>9, <3>1, <3>2, Zenon
      <4>2. (IF g[q].target.absolute THEN <<>> ELSE Front(q)) = <<>>
        BY <2>11, Zenon
      <4>3. Follow(g, t) = [at |-> <<>>, left |-> x]
        BY <2>10, <3>2, <4>2, Zenon
      <4> QED BY <4>1, <4>3
    <3>4. [at |-> <<>>, left |-> x] \in States
      BY DEF States
    <3> QED BY <1>3, <3>3, <3>4, SameAlike
  <2>12. CASE ~ g[q].target.absolute
    <3>1. Follow(g, t) = [at |-> Front(q), left |-> g[q].target.names \o rest]
      BY <2>10, <2>12, Zenon
    <3>2. Turned(f, g, q, rest, Follow(f, s), Follow(g, t))
      BY <1>3, <2>6, <2>7, <2>9, <2>12, <3>1, Zenon DEF Turned
    <3> QED BY <3>2, RelativeAlike
  <2> QED BY <2>8, <2>11, <2>12
<1> QED BY <1>5, <1>6

\* The walks are defined by recursion as well.
AreWalks(walk, f, path) ==
  walk = [n \in 0 .. MaxLinks |->
            IF n = 0 THEN [at |-> <<>>, left |-> path] ELSE Follow(f, walk[n - 1])]

LEMMA WalksExist ==
  ASSUME NEW f, NEW path
  PROVE  \E w : AreWalks(w, f, path)
<1> DEFINE start == [at |-> <<>>, left |-> path]
           Good(w, m) == w[0] = start /\ \A n \in 1 .. m : w[n] = Follow(f, w[n - 1])
           T == {m \in 0 .. MaxLinks : \E w : Good(w, m)}
<1>1. MaxLinks \in Nat
  BY UnpackAssumption
<1> HIDE DEF start
<1>2. 0 \in T
  <2>1. Good([n \in {0} |-> start], 0)
    OBVIOUS
  <2>2. \E w : Good(w, 0)
    <3> HIDE DEF Good
    <3> QED BY <2>1
  <2> HIDE DEF Good
  <2> QED BY <1>1, <2>2
<1>3. ASSUME NEW m \in 0 .. MaxLinks, m \in T, m < MaxLinks
      PROVE  m + 1 \in T
  <2>1. PICK w : Good(w, m)
    BY <1>3
  <2> DEFINE v == [n \in 0 .. m + 1 |-> IF n = m + 1 THEN Follow(f, w[m]) ELSE w[n]]
  <2>2. \A n \in 0 .. m : v[n] = w[n]
    BY <1>1
  <2>3. v[m + 1] = Follow(f, v[m])
    BY <1>1, <2>2
  <2> HIDE DEF v
  <2>4. \A n \in 1 .. m : v[n] = Follow(f, v[n - 1])
    <3> TAKE n \in 1 .. m
    <3>1. v[n] = w[n] /\ v[n - 1] = w[n - 1]
      BY <1>1, <2>2
    <3> QED BY <2>1, <3>1
  <2>5. v[0] = start
    <3>1. w[0] = start
      BY <2>1
    <3>2. 0 \in 0 .. m
      BY <1>1
    <3> HIDE DEF Good
    <3> QED BY <2>2, <3>1, <3>2
  <2>6. \A n \in 1 .. m + 1 : n \in 1 .. m \/ (n = m + 1 /\ n - 1 = m)
    <3>1. m \in Nat
      BY <1>1
    <3> HIDE DEF Good, T
    <3> QED BY <3>1
  <2>7. m + 1 \in 0 .. MaxLinks
    BY <1>1, <1>3
  <2>8. Good(v, m + 1)
    BY <2>3, <2>4, <2>5, <2>6
  <2> HIDE DEF Good
  <2> QED BY <2>7, <2>8
<1>4. MaxLinks \in T
  <2> HIDE DEF T
  <2>1. \A n \in 0 .. MaxLinks : n \in T
    BY <1>1, <1>2, <1>3, UpTo
  <2> QED BY <1>1, <2>1
<1>5. PICK w : Good(w, MaxLinks)
  BY <1>4
<1> DEFINE v == [n \in 0 .. MaxLinks |-> w[n]]
<1>6. \A n \in 0 .. MaxLinks : v[n] = IF n = 0 THEN start ELSE Follow(f, v[n - 1])
  <2> TAKE n \in 0 .. MaxLinks
  <2>1. CASE n = 0
    BY <1>5, <2>1
  <2>2. CASE n # 0
    <3>1. n \in 1 .. MaxLinks /\ v[n] = w[n] /\ v[n - 1] = w[n - 1]
      BY <1>1, <2>2
    <3> QED BY <1>5, <2>2, <3>1
  <2> QED BY <2>1, <2>2
<1>7. v = [n \in 0 .. MaxLinks |-> IF n = 0 THEN start ELSE Follow(f, v[n - 1])]
  BY <1>6
<1> HIDE DEF v
<1>8. AreWalks(v, f, path)
  BY <1>7, Zenon DEF AreWalks, start
<1> QED BY <1>8

LEMMA WalkFacts ==
  ASSUME NEW f, NEW path
  PROVE  /\ Walk(f, path)[0] = [at |-> <<>>, left |-> path]
         /\ \A n \in 1 .. MaxLinks : Walk(f, path)[n] = Follow(f, Walk(f, path)[n - 1])
<1> DEFINE w == Walk(f, path)
<1>1. w = CHOOSE v : AreWalks(v, f, path)
  BY DEF Walk, AreWalks
<1> HIDE DEF w
<1>2. AreWalks(w, f, path)
  <2>1. \E v : AreWalks(v, f, path)
    BY WalksExist
  <2> QED BY <1>1, <2>1, Zenon
<1>3. MaxLinks \in Nat
  BY UnpackAssumption
<1>4. \A n \in 0 .. MaxLinks :
        w[n] = IF n = 0 THEN [at |-> <<>>, left |-> path] ELSE Follow(f, w[n - 1])
  BY <1>2, Zenon DEF AreWalks
<1>5. \A n \in 1 .. MaxLinks : n \in 0 .. MaxLinks /\ n # 0
  BY <1>3
<1>6. 0 \in 0 .. MaxLinks
  BY <1>3
<1> QED BY <1>4, <1>5, <1>6, Zenon DEF w

\* A path leads to the same place by what is written as by what was packed.
LEMMA LeadsAlike ==
  ASSUME NEW f, NEW g, Written(f, g), NEW path \in Seq(Names)
  PROVE  Leads(f, path) = Leads(g, path)
<1> DEFINE v == Walk(f, path)
           w == Walk(g, path)
           T == {n \in 0 .. MaxLinks : Alike(f, g, v[n], w[n])}
<1>1. /\ v[0] = [at |-> <<>>, left |-> path] /\ w[0] = [at |-> <<>>, left |-> path]
      /\ \A n \in 1 .. MaxLinks : v[n] = Follow(f, v[n - 1]) /\ w[n] = Follow(g, w[n - 1])
  BY WalkFacts
<1>2. MaxLinks \in Nat
  BY UnpackAssumption
<1> HIDE DEF v, w
<1>3. 0 \in T
  <2>1. path \in Seq(N)
    BY DEF N
  <2>2. [at |-> <<>>, left |-> path] \in States
    BY <2>1 DEF States
  <2>3. Alike(f, g, v[0], w[0])
    BY <1>1, <2>2, SameAlike
  <2> QED BY <1>2, <2>3
<1>4. ASSUME NEW n \in 0 .. MaxLinks, n \in T, n < MaxLinks PROVE n + 1 \in T
  <2>1. n + 1 \in 1 .. MaxLinks /\ n + 1 - 1 = n /\ n + 1 \in 0 .. MaxLinks
    BY <1>2, <1>4
  <2>2. v[n + 1] = Follow(f, v[n]) /\ w[n + 1] = Follow(g, w[n])
    BY <1>1, <2>1
  <2>3. Alike(f, g, v[n + 1], w[n + 1])
    BY <1>4, <2>2, FollowAlike
  <2> QED BY <2>1, <2>3
<1>5. Alike(f, g, v[MaxLinks], w[MaxLinks])
  <2> HIDE DEF T
  <2>1. \A n \in 0 .. MaxLinks : n \in T
    BY <1>2, <1>3, <1>4, UpTo
  <2>2. MaxLinks \in T
    BY <1>2, <2>1
  <2> QED BY <2>2 DEF T
<1> DEFINE s == v[MaxLinks]
           t == w[MaxLinks]
<1>6. PICK i \in Nat, j \in Nat : AlikeFrom(f, g, s, t, i, j)
  BY <1>5 DEF Alike
<1>7. SameFirst(f, g, s, t, i, j) /\ Abreast(f, g, s, t, i, j)
  BY <1>6, FirstMet, SameMet
<1>8. Met(f, s) = {} <=> Met(g, t) = {}
  BY <1>7 DEF SameFirst
<1>9. Place(s.at, s.left) = Place(t.at, t.left)
  <2> DEFINE m == Len(s.left) - i
  <2>1. Len(s.left) \in Nat /\ Len(t.left) \in Nat
    BY <1>6 DEF AlikeFrom, States
  <2>2. m \in 0 .. m /\ i + m = Len(s.left) /\ j + m = Len(t.left)
    BY <1>6, <2>1 DEF AlikeFrom
  <2>3. Places(s.at, s.left)[i + m] = Places(t.at, t.left)[j + m]
    BY <1>7, <2>2 DEF Abreast
  <2> HIDE DEF m
  <2> QED BY <2>2, <2>3, Zenon DEF Place
<1>10. /\ Leads(f, path) = IF Met(f, s) = {} THEN [to |-> Place(s.at, s.left)] ELSE [error |-> "ELOOP"]
       /\ Leads(g, path) = IF Met(g, t) = {} THEN [to |-> Place(t.at, t.left)] ELSE [error |-> "ELOOP"]
  BY Zenon DEF Leads, v, w
<1>11. CASE Met(f, s) = {}
  <2>1. Met(g, t) = {}
    BY <1>8, <1>11
  <2> QED BY <1>9, <1>10, <1>11, <2>1
<1>12. CASE Met(f, s) # {}
  <2>1. Met(g, t) # {}
    BY <1>8, <1>12
  <2> QED BY <1>10, <1>12, <2>1
<1> QED BY <1>11, <1>12

-----------------------------------------------------------------------------
(***************************************************************************)
(* The share.                                                              *)
(***************************************************************************)

\* Every node of a written archive is in the share as it is written.
Shared == fs = [q \in Paths |-> Entry(q, packed[q])]

\* The path of a node tells its archive and its place in it.
AtRoot(a, p, q) == a \in Archives /\ p \in Seq(Names) /\ q = Root(a) \o p

Rooted(a, p, q) ==
  /\ q \in Seq(Names) /\ Len(q) = Len(p) + 2 /\ q[2] = a
  /\ SubSeq(q, 3, Len(q)) = p
  /\ \A n \in 2 .. Len(p) + 1 : SubSeq(SubSeq(q, 1, n), 3, n) = SubSeq(p, 1, n - 2)

LEMMA RootOf ==
  ASSUME NEW a, NEW p, NEW q, AtRoot(a, p, q)
  PROVE  Rooted(a, p, q)
<1>1. p \in Seq(Names) /\ q = <<"store", a>> \o p /\ a \in Names /\ "store" \in Names
  BY UnpackAssumption DEF AtRoot, Root
<1>2. PICK r \in Seq(Names) : r = <<"store", a>> /\ Len(r) = 2 /\ r[1] = "store" /\ r[2] = a
  <2>1. <<"store", a>> \in Seq(Names)
    BY <1>1
  <2> QED BY <2>1
<1>3. q = r \o p /\ p \in Seq(Names)
  BY <1>1, <1>2
<1>4. q \in Seq(Names)
  BY <1>3
<1>5. Len(q) = Len(p) + 2
  BY <1>2, <1>3
<1>6. q[1] = "store" /\ q[2] = a
  <2>1. \A n \in 1 .. 2 : q[n] = r[n]
    BY <1>2, <1>3
  <2> QED BY <1>2, <2>1
<1>7. \A n \in 1 .. Len(p) : q[n + 2] = p[n]
  BY <1>2, <1>3
<1>8. SubSeq(q, 3, Len(q)) = p
  <2> DEFINE x == SubSeq(q, 3, Len(q))
  <2>1. x \in Seq(Names) /\ Len(x) = Len(p)
    BY <1>4, <1>5
  <2>2. \A n \in 1 .. Len(p) : x[n] = q[n + 2]
    BY <1>4, <1>5
  <2> HIDE DEF x
  <2>3. \A n \in 1 .. Len(x) : x[n] = p[n]
    BY <1>7, <2>1, <2>2
  <2>4. x = p
    BY <1>3, <2>1, <2>3, SeqEqual
  <2> QED BY <2>4 DEF x
<1>9. ASSUME NEW n \in 2 .. Len(p) + 1
      PROVE  SubSeq(SubSeq(q, 1, n), 3, n) = SubSeq(p, 1, n - 2)
  <2> DEFINE x == SubSeq(SubSeq(q, 1, n), 3, n)
             y == SubSeq(p, 1, n - 2)
  <2>1. n \in Nat /\ n <= Len(q) /\ n >= 2 /\ n - 2 <= Len(p)
    BY <1>5
  <2>2. SubSeq(q, 1, n) \in Seq(Names) /\ Len(SubSeq(q, 1, n)) = n
    BY <1>4, <2>1
  <2>3. \A i \in 1 .. n : SubSeq(q, 1, n)[i] = q[i]
    BY <1>4, <2>1
  <2>4. x \in Seq(Names) /\ Len(x) = n - 2
    BY <2>1, <2>2
  <2>5. \A i \in 1 .. n - 2 : x[i] = SubSeq(q, 1, n)[i + 2]
    BY <2>1, <2>2
  <2>6. y \in Seq(Names) /\ Len(y) = n - 2
    BY <1>3, <2>1
  <2>7. \A i \in 1 .. n - 2 : y[i] = p[i]
    BY <1>3, <2>1
  <2> HIDE DEF x, y
  <2>8. \A i \in 1 .. n - 2 : x[i] = y[i]
    <3> TAKE i \in 1 .. n - 2
    <3>1. i \in 1 .. Len(p) /\ i + 2 \in 1 .. n
      BY <2>1
    <3> QED BY <1>7, <2>3, <2>5, <2>7, <3>1
  <2>9. x = y
    BY <2>4, <2>6, <2>8, SeqEqual
  <2> QED BY <2>9 DEF x, y
<1> QED BY <1>4, <1>5, <1>6, <1>8, <1>9 DEF Rooted

\* A path of the share is that of one node of one written archive.
LEMMA PathIs ==
  ASSUME NEW q \in Paths
  PROVE  /\ q \in Seq(Names) /\ Len(q) >= 2 /\ q[2] \in Archives /\ status[q[2]] = "written"
         /\ q = Root(q[2]) \o SubSeq(q, 3, Len(q))
         /\ SubSeq(q, 3, Len(q)) \in DOMAIN Tree[q[2]] /\ SubSeq(q, 3, Len(q)) \in Seq(Names)
<1>1. PICK a \in Archives : status[a] = "written" /\ q \in {Root(a) \o p : p \in DOMAIN Tree[a]}
  BY DEF Paths
<1>2. PICK p \in DOMAIN Tree[a] : q = Root(a) \o p
  BY <1>1
<1>3. p \in Seq(Names)
  BY UnpackAssumption
<1>4. Len(p) \in Nat
  BY <1>3
<1>5. AtRoot(a, p, q)
  BY <1>2, <1>3 DEF AtRoot
<1>6. /\ q \in Seq(Names) /\ Len(q) = Len(p) + 2 /\ q[2] = a
      /\ SubSeq(q, 3, Len(q)) = p
  <2>1. Rooted(a, p, q)
    BY <1>5, RootOf
  <2> QED BY <2>1 DEF Rooted
<1>7. Len(q) >= 2
  BY <1>4, <1>6
<1> QED BY <1>1, <1>2, <1>3, <1>6, <1>7, Zenon

\* What is in the share is written of what was packed.
LEMMA SharedIsWritten ==
  ASSUME Shared, LinksRiseFirst
  PROVE  Written(fs, packed)
<1>1. /\ DOMAIN fs = Paths /\ DOMAIN packed = Paths
      /\ \A q \in Paths : fs[q] = Entry(q, packed[q])
      /\ \A q \in Paths : packed[q] = Tree[q[2]][SubSeq(q, 3, Len(q))]
  BY DEF Shared, packed
<1>2. Paths \subseteq Seq(Names) \ {<<>>}
  <2> SUFFICES ASSUME NEW q \in Paths PROVE q \in Seq(Names) \ {<<>>}
    OBVIOUS
  <2>1. q \in Seq(Names) /\ Len(q) >= 2
    BY PathIs
  <2> QED BY <2>1
<1> SUFFICES ASSUME NEW q \in Paths
    PROVE  /\ fs[q].type = packed[q].type
           /\ \A n \in 0 .. Len(q) - 1 :
                SubSeq(q, 1, n) \in Paths => packed[SubSeq(q, 1, n)].type # "symlink"
           /\ packed[q].type = "symlink" =>
                /\ packed[q].target.absolute \in BOOLEAN
                /\ packed[q].target.names \in Seq(N)
                /\ fs[q].target = [absolute |-> TRUE, names |-> absoluteTarget(q, packed[q].target)]
                /\ ~ packed[q].target.absolute =>
                     \E up \in 0 .. Len(q) - 1 : \A i \in DOMAIN packed[q].target.names :
                       packed[q].target.names[i] = ".." <=> i <= up
  BY <1>1, <1>2 DEF Written
<1> DEFINE a == q[2]
           p == SubSeq(q, 3, Len(q))
<1>3. /\ a \in Archives /\ p \in DOMAIN Tree[a] /\ p \in Seq(Names) /\ q = Root(a) \o p
      /\ packed[q] = Tree[a][p]
  BY <1>1, PathIs
<1> HIDE DEF a, p
<1>4. Rooted(a, p, q)
  <2>1. AtRoot(a, p, q)
    BY <1>3 DEF AtRoot
  <2> QED BY <2>1, RootOf
<1>5. Len(q) = Len(p) + 2 /\ Len(p) \in Nat
  BY <1>3, <1>4 DEF Rooted
<1>6. fs[q].type = packed[q].type
  BY <1>1 DEF Entry
<1>7. ASSUME NEW n \in 0 .. Len(q) - 1, SubSeq(q, 1, n) \in Paths
      PROVE  packed[SubSeq(q, 1, n)].type # "symlink"
  <2> DEFINE r == SubSeq(q, 1, n)
  <2>1. q \in Seq(Names) /\ n \in Nat /\ n <= Len(q)
    BY <1>2, <1>5
  <2>2. Len(r) = n /\ (n >= 2 => r[2] = q[2])
    BY <2>1
  <2>3. Len(r) >= 2
    BY <1>7, PathIs
  <2>4. n \in 2 .. Len(p) + 1 /\ n - 2 \in 0 .. Len(p) - 1
    BY <1>5, <2>1, <2>2, <2>3
  <2>5. SubSeq(r, 3, n) = SubSeq(p, 1, n - 2)
    BY <1>4, <2>4 DEF Rooted
  <2>6. packed[r] = Tree[a][SubSeq(p, 1, n - 2)]
    BY <1>1, <1>7, <2>2, <2>3, <2>5 DEF a
  <2>7. Tree[a][SubSeq(p, 1, n - 2)].type = "directory"
    BY <1>3, <2>4, UnpackAssumption
  <2> QED BY <2>6, <2>7
<1>8. ASSUME packed[q].type = "symlink"
      PROVE  /\ packed[q].target.absolute \in BOOLEAN
             /\ packed[q].target.names \in Seq(N)
             /\ fs[q].target = [absolute |-> TRUE, names |-> absoluteTarget(q, packed[q].target)]
             /\ ~ packed[q].target.absolute =>
                  \E up \in 0 .. Len(q) - 1 : \A i \in DOMAIN packed[q].target.names :
                    packed[q].target.names[i] = ".." <=> i <= up
  <2>1. packed[q].target.absolute \in BOOLEAN /\ packed[q].target.names \in Seq(N)
    BY <1>3, <1>8, UnpackAssumption DEF N
  <2>2. fs[q].target = [absolute |-> TRUE, names |-> absoluteTarget(q, packed[q].target)]
    <3>1. fs[q] = [type |-> "symlink",
                   target |-> [absolute |-> TRUE, names |-> absoluteTarget(q, packed[q].target)]]
      BY <1>1, <1>8, Zenon DEF Entry
    <3> QED BY <3>1
  <2>3. ASSUME ~ packed[q].target.absolute
        PROVE  \E up \in 0 .. Len(q) - 1 : \A i \in DOMAIN packed[q].target.names :
                 packed[q].target.names[i] = ".." <=> i <= up
    <3>1. \E up \in 0 .. Len(p) + 1 : \A i \in DOMAIN packed[q].target.names :
            packed[q].target.names[i] = ".." <=> i <= up
      BY <1>3, <1>8, <2>3 DEF LinksRiseFirst
    <3>2. Len(p) + 1 = Len(q) - 1
      BY <1>5
    <3> QED BY <3>1, <3>2
  <2> QED BY <2>1, <2>2, <2>3
<1> QED BY <1>6, <1>7, <1>8

\* Writing an archive adds its nodes to those of the others.
LEMMA WriteShares ==
  ASSUME UInv, Shared, NEW a \in Archives, Write(a)
  PROVE  Shared'
<1>1. /\ status[a] = "done" /\ status' = [status EXCEPT ![a] = "written"]
      /\ fs' = writeEntries(fs, Root(a), parseNar(Tree[a]))
  BY DEF Write
<1>2. \A b \in Archives : status'[b] = IF b = a THEN "written" ELSE status[b]
  BY <1>1 DEF UInv, UType
<1> DEFINE new == {Root(a) \o e.path : e \in parseNar(Tree[a])}
<1>3. new = {Root(a) \o p : p \in DOMAIN Tree[a]}
  <2>1. \A e \in parseNar(Tree[a]) : e.path \in DOMAIN Tree[a]
    BY DEF parseNar
  <2>2. ASSUME NEW p \in DOMAIN Tree[a] PROVE \E e \in parseNar(Tree[a]) : e.path = p
    <3>1. [path |-> p, node |-> Tree[a][p]] \in parseNar(Tree[a])
      BY DEF parseNar
    <3> QED BY <3>1
  <2> QED BY <2>1, <2>2
<1>4. Paths' = Paths \cup new
  <2>1. {b \in Archives : status'[b] = "written"} = {b \in Archives : status[b] = "written"} \cup {a}
    BY <1>2
  <2> DEFINE Of(b) == {Root(b) \o p : p \in DOMAIN Tree[b]}
  <2>2. Paths = UNION {Of(b) : b \in {d \in Archives : status[d] = "written"}}
    BY DEF Paths
  <2>3. Paths' = UNION {Of(b) : b \in {d \in Archives : status'[d] = "written"}}
    BY DEF Paths
  <2>4. new = Of(a)
    BY <1>3
  <2> HIDE DEF new, Of
  <2> QED BY <2>1, <2>2, <2>3, <2>4
<1>5. \A q \in new : q \notin Paths /\ q[2] = a /\ SubSeq(q, 3, Len(q)) \in DOMAIN Tree[a]
                     /\ q = Root(a) \o SubSeq(q, 3, Len(q))
  <2> TAKE q \in new
  <2>1. PICK p \in DOMAIN Tree[a] : q = Root(a) \o p
    BY <1>3
  <2>2. p \in Seq(Names)
    BY UnpackAssumption
  <2>3. AtRoot(a, p, q)
    BY <2>1, <2>2 DEF AtRoot
  <2>4. q[2] = a /\ SubSeq(q, 3, Len(q)) = p
    BY <2>3, RootOf DEF Rooted
  <2>5. q \notin Paths
    BY <1>1, <2>4, PathIs
  <2> QED BY <2>1, <2>4, <2>5
<1>6. \A q \in new : (CHOOSE e \in parseNar(Tree[a]) : Root(a) \o e.path = q).node
                        = Tree[a][SubSeq(q, 3, Len(q))]
  <2> TAKE q \in new
  <2>1. \E e \in parseNar(Tree[a]) : Root(a) \o e.path = q
    OBVIOUS
  <2>2. PICK e \in parseNar(Tree[a]) :
          /\ e = CHOOSE d \in parseNar(Tree[a]) : Root(a) \o d.path = q
          /\ Root(a) \o e.path = q
    BY <2>1, Zenon
  <2>3. e.path \in DOMAIN Tree[a] /\ e.node = Tree[a][e.path]
    BY DEF parseNar
  <2>4. e.path \in Seq(Names)
    BY <2>3, UnpackAssumption
  <2>5. AtRoot(a, e.path, q)
    BY <2>2, <2>4 DEF AtRoot
  <2>6. SubSeq(q, 3, Len(q)) = e.path
    BY <2>5, RootOf DEF Rooted
  <2> QED BY <2>2, <2>3, <2>6
<1>7. packed' = [q \in Paths' |-> Tree[q[2]][SubSeq(q, 3, Len(q))]]
  BY DEF packed
<1>8. fs' = [q \in Paths \cup new |->
               IF q \in new
                 THEN Entry(q, (CHOOSE e \in parseNar(Tree[a]) : Root(a) \o e.path = q).node)
               ELSE fs[q]]
  BY <1>1 DEF writeEntries, Shared
<1> HIDE DEF new
<1>9. \A q \in Paths \cup new : fs'[q] = Entry(q, packed'[q])
  <2> TAKE q \in Paths \cup new
  <2>1. CASE q \in new
    <3>1. packed'[q] = Tree[a][SubSeq(q, 3, Len(q))]
      BY <1>4, <1>5, <1>7, <2>1
    <3> QED BY <1>6, <1>8, <2>1, <3>1
  <2>2. CASE q \notin new
    <3>1. packed'[q] = packed[q]
      BY <1>4, <1>7, <2>2 DEF packed
    <3>2. fs'[q] = fs[q]
      BY <1>8, <2>2
    <3> QED BY <2>2, <3>1, <3>2 DEF Shared
  <2> QED BY <2>1, <2>2
<1>10. fs' = [q \in Paths' |-> Entry(q, packed'[q])]
  BY <1>4, <1>8, <1>9
<1> QED BY <1>10 DEF Shared

\* No other step writes, or makes an archive one that is written.
LEMMA OthersShare ==
  ASSUME UInv, Shared, \/ UNCHANGED vars
                       \/ Decoding
                       \/ \E a \in Archives : Decompress(a)
  PROVE  Shared'
<1>1. fs' = fs /\ \A b \in Archives : status'[b] = "written" <=> status[b] = "written"
  <2>1. CASE UNCHANGED vars
    BY <2>1 DEF vars
  <2>2. ASSUME NEW a \in Archives, Decompress(a)
        PROVE  fs' = fs /\ \A b \in Archives : status'[b] = "written" <=> status[b] = "written"
    BY <2>2 DEF Decompress, UInv, UType
  <2>3. CASE Decoding
    <3>1. PICK a \in Current :
            Start(a) \/ Loaded(a) \/ LoadFails(a) \/ NoDecoder(a) \/ Stream(a) \/ Push(a) \/ Finish(a)
      BY <2>3 DEF Decoding
    <3>2. a \in Archives
      BY First
    <3>3. fs' = fs /\ status[a] \in Underway
      BY <3>1 DEF Start, Loaded, LoadFails, NoDecoder, Stream, Push, Finish, Underway
    <3>4. \/ status' = status
          \/ \E verdict \in {"loading", "decoding", "failed", "unavailable", "done"} :
               status' = [status EXCEPT ![a] = verdict]
      <4>1. \/ Throw(a)
            \/ \E verdict \in {"failed", "done", "unavailable"} : Settle(a, verdict)
            =>
              \E verdict \in {"loading", "decoding", "failed", "unavailable", "done"} :
                status' = [status EXCEPT ![a] = verdict]
        BY DEF Throw, Settle
      <4> QED BY <3>1, <4>1 DEF Start, Loaded, LoadFails, NoDecoder, Stream, Push, Finish
    <3>5. \A b \in Archives : status'[b] = "written" <=> status[b] = "written"
      BY <3>2, <3>3, <3>4 DEF UInv, UType, Underway
    <3> QED BY <3>3, <3>5
  <2> QED BY <2>1, <2>2, <2>3
<1>2. {b \in Archives : status'[b] = "written"} = {b \in Archives : status[b] = "written"}
  BY <1>1
<1>3. Paths' = Paths
  BY <1>2 DEF Paths
<1>4. packed' = packed
  BY <1>3 DEF packed
<1> QED BY <1>1, <1>3, <1>4 DEF Shared

\* What is written of an archive, whatever is written before and after it, and
\* whatever the decoders make of the others.
THEOREM EveryNodeShared == Spec => []Shared
<1>1. Init => Shared
  <2> SUFFICES ASSUME Init PROVE Shared
    OBVIOUS
  <2>1. {b \in Archives : status[b] = "written"} = {}
    BY DEF Init
  <2>2. Paths = {}
    BY <2>1 DEF Paths
  <2>3. fs = <<>>
    BY DEF Init
  <2> QED BY <2>2, <2>3 DEF Shared
<1>2. UInv /\ Shared /\ [Next]_vars => Shared'
  BY WriteShares, OthersShare DEF Next
<1> QED BY <1>1, <1>2, Invariant, PTL DEF Spec

\* Every path leads in the share to where it leads in the archives as they
\* were packed, whatever chain of links it takes, although each relative target
\* is rewritten as an absolute one (store.js, absoluteTarget and writeEntries).
THEOREM ShareAsPacked ==
  ASSUME LinksRiseFirst
  PROVE  Spec => []ShareIsArchive
<1>1. Shared => ShareIsArchive
  <2> SUFFICES ASSUME Shared PROVE ShareIsArchive
    OBVIOUS
  <2>1. DOMAIN fs = Paths
    BY DEF Shared
  <2>2. Written(fs, packed)
    BY SharedIsWritten
  <2>3. \A p \in Paths : fs[p].type = packed[p].type
    BY <2>2 DEF Written, packed
  <2>4. \A p \in Paths : Leads(fs, p) = Leads(packed, p)
    <3> TAKE p \in Paths
    <3>1. p \in Seq(Names)
      BY PathIs
    <3> QED BY <2>2, <3>1, LeadsAlike
  <2> QED BY <2>1, <2>3, <2>4 DEF ShareIsArchive
<1> QED BY <1>1, EveryNodeShared, PTL
=============================================================================
