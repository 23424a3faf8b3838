------------------------------- MODULE Unpack -------------------------------
(***************************************************************************)
(* From the compressed archive to the files of the share: the decoders,    *)
(* one archive at a time (serialize, decompress, unbzip2 of                *)
(* site/js/store.js), the parsed archive (site/js/nar.js) and what is      *)
(* written of it (writeEntries, absoluteTarget).  Fetching the bytes and   *)
(* trying again is the matter of NarFetch.                                 *)
(*                                                                         *)
(* A path is a sequence of names; the parts of a target that say nothing,  *)
(* "." and the empty one, are left out.  Bytes are counted, not looked at; *)
(* what a decoder makes of them is open.                                   *)
(***************************************************************************)
EXTENDS Integers, FiniteSets, SequencesExt, TLC

CONSTANTS
  Archives,  \* the archives of a closure, which also name their store paths
  codec,     \* how each is compressed: "none", "stream" (xz, zstd) or "bzip2"
  narSize,   \* the unpacked size each narinfo claims, 0 for none
  Pieces,    \* how many pieces a bzip2 archive is pushed in
  MaxPart,   \* bound: the most one push hands back
  Names,     \* the names in the archives and of them
  Tree,      \* what is in each archive: from paths to nodes
  MaxTries,  \* NAR_ATTEMPTS
  MaxLinks   \* how many links the guest's kernel follows before it gives up

ASSUME UnpackAssumption ==
  /\ Pieces \in Nat \ {0} /\ MaxTries \in Nat \ {0} /\ MaxLinks \in Nat
  /\ ".." \notin Names /\ "store" \in Names /\ Archives \subseteq Names
  /\ \A a \in Archives :
       /\ codec[a] \in {"none", "stream", "bzip2"} /\ narSize[a] \in Nat
       /\ DOMAIN Tree[a] \subseteq Seq(Names)
       /\ \A p \in DOMAIN Tree[a] :
            \* what it is in, up to the root of the archive, are directories
            /\ \A n \in 0 .. Len(p) - 1 :
                 SubSeq(p, 1, n) \in DOMAIN Tree[a] /\ Tree[a][SubSeq(p, 1, n)].type = "directory"
            /\ Tree[a][p].type = "symlink" =>
                 /\ Tree[a][p].target.absolute \in BOOLEAN
                 /\ Tree[a][p].target.names \in Seq(Names \cup {".."})

VARIABLES
  status,    \* what became of each archive
  queue,     \* the decodes that hang on the promise, the one under way first
  tries,     \* how often each was to be decoded
  at,        \* the pieces pushed ...
  filled,    \* ... and the bytes that came of them, in the decode under way
  decoders,  \* the bzip2 decoders that hold wasm memory
  module,    \* bzip2Promise: "none", "loading" or "ready"
  broken,    \* the browser has recorded that the module cannot be imported
  blame,     \* history: what the last decode of each failed for, if it did:
             \* its "bytes" were refused, or a "decoder" was not to be had
  unpacked,  \* history: how many bytes each came to
  fs         \* the share

engine == <<at, filled, decoders, module, broken>>
vars == <<status, queue, tries, engine, blame, unpacked, fs>>

Settled == {"done", "written", "failed", "unavailable"}

-----------------------------------------------------------------------------
(***************************************************************************)
(* The decoders.                                                           *)
(***************************************************************************)

Blame(a, what) == blame' = [blame EXCEPT ![a] = what]

\* decompress: an archive that is not compressed does not queue.
Decompress(a) ==
  /\ tries[a] < MaxTries /\ status[a] \in {"idle", "failed"}
  /\ tries' = [tries EXCEPT ![a] = @ + 1]
  /\ IF codec[a] = "none"
       THEN status' = [status EXCEPT ![a] = "done"] /\ UNCHANGED queue
     ELSE status' = [status EXCEPT ![a] = "waiting"] /\ queue' = Append(queue, a)
  /\ Blame(a, "nothing")
  /\ UNCHANGED <<engine, unpacked, fs>>

\* Mutant: what waits behind a decode that throws throws with it.
SettlePoisoned(a, verdict) ==
  /\ queue' = IF verdict = "done" THEN Tail(queue) ELSE <<>>
  /\ status' = [b \in Archives |->
                  IF b = a \/ (verdict # "done" /\ b \in Range(queue)) THEN verdict ELSE status[b]]
  /\ decoders' = decoders \ {a}

\* The end of a decode, which frees its decoder and lets the next one begin
\* whether or not it threw.
Settle(a, verdict) ==
  /\ queue' = Tail(queue)
  /\ status' = [status EXCEPT ![a] = verdict]
  /\ decoders' = decoders \ {a}

Throw(a) == Settle(a, "failed") /\ Blame(a, "bytes")

\* Mutant: the decoder is loaded behind the queue its own decode is the head of.
StartNested(a) ==
  /\ status[a] = "waiting"
  /\ IF codec[a] = "bzip2" /\ module # "ready"
       THEN status' = [status EXCEPT ![a] = "queued"] /\ module' = "loading" /\ UNCHANGED decoders
     ELSE /\ status' = [status EXCEPT ![a] = "decoding"]
          /\ decoders' = IF codec[a] = "bzip2" THEN decoders \cup {a} ELSE decoders
          /\ UNCHANGED module
  /\ at' = 0 /\ filled' = 0
  /\ UNCHANGED <<queue, tries, broken, blame, unpacked, fs>>

\* The decode at the head of the queue begins; bzip2() asks for the module.
Start(a) ==
  /\ status[a] = "waiting"
  /\ IF codec[a] = "bzip2" /\ module # "ready"
       THEN status' = [status EXCEPT ![a] = "loading"] /\ module' = "loading" /\ UNCHANGED decoders
     ELSE /\ status' = [status EXCEPT ![a] = "decoding"]
          /\ decoders' = IF codec[a] = "bzip2" THEN decoders \cup {a} ELSE decoders
          /\ UNCHANGED module
  /\ at' = 0 /\ filled' = 0
  /\ UNCHANGED <<queue, tries, broken, blame, unpacked, fs>>

Loaded(a) ==
  /\ status[a] = "loading" /\ ~broken
  /\ module' = "ready"
  /\ status' = [status EXCEPT ![a] = "decoding"]
  /\ decoders' = decoders \cup {a}
  /\ UNCHANGED <<queue, tries, at, filled, broken, blame, unpacked, fs>>

\* The import fails, and every later one will, or only the wasm's fetch does.
\* Either way the promise is cleared, and nothing is said of the archive.
LoadFails(a) ==
  /\ status[a] = "loading"
  /\ module' = "none"
  /\ broken' \in {broken, TRUE}
  /\ Settle(a, "unavailable") /\ Blame(a, "decoder")
  /\ UNCHANGED <<tries, at, filled, unpacked, fs>>

\* The script of an xz or zstd decoder is not there, or no decoder can be made
\* of any of the three.  That is no DecoderUnavailable: it is thrown as if the
\* bytes were bad.
NoDecoder(a) ==
  /\ status[a] = "decoding" /\ at = 0
  /\ Settle(a, "failed") /\ Blame(a, "decoder")
  /\ UNCHANGED <<tries, at, filled, module, broken, unpacked, fs>>

\* An xz or zstd stream, in one go.
Stream(a) ==
  /\ status[a] = "decoding" /\ codec[a] = "stream"
  /\ \/ Settle(a, "done") /\ UNCHANGED blame
     \/ Throw(a)
  /\ UNCHANGED <<tries, at, filled, module, broken, unpacked, fs>>

\* take: a block has its place in the buffer of the claimed size, if any.
Fits(a, part) == narSize[a] = 0 \/ filled + part <= narSize[a]

\* A piece is pushed, and the loop yields if a block came back.
Push(a) ==
  /\ status[a] = "decoding" /\ codec[a] = "bzip2" /\ at < Pieces
  /\ at' = at + 1
  /\ \/ \E part \in 0..MaxPart :
          IF Fits(a, part)
            THEN filled' = filled + part /\ UNCHANGED <<status, queue, decoders, blame>>
          ELSE Throw(a) /\ UNCHANGED filled
     \/ Throw(a) /\ UNCHANGED filled
  /\ UNCHANGED <<tries, module, broken, unpacked, fs>>

\* Mutant: that the buffer is full is not checked.
FinishUnchecked(a) ==
  /\ status[a] = "decoding" /\ codec[a] = "bzip2" /\ at = Pieces
  /\ \E part \in 0..MaxPart :
       /\ filled' = filled + part
       /\ IF Fits(a, part)
            THEN /\ Settle(a, "done") /\ unpacked' = [unpacked EXCEPT ![a] = filled']
                 /\ UNCHANGED blame
          ELSE Throw(a) /\ UNCHANGED unpacked
  /\ UNCHANGED <<tries, at, module, broken, fs>>

\* decoder.finish hands back the rest, or says that the stream ended early.
Finish(a) ==
  /\ status[a] = "decoding" /\ codec[a] = "bzip2" /\ at = Pieces
  /\ \/ \E part \in 0..MaxPart :
          /\ filled' = filled + part
          /\ IF narSize[a] \in {0, filled + part}
               THEN /\ Settle(a, "done") /\ unpacked' = [unpacked EXCEPT ![a] = filled']
                    /\ UNCHANGED blame
             ELSE Throw(a) /\ UNCHANGED unpacked
     \/ Throw(a) /\ UNCHANGED <<filled, unpacked>>
  /\ UNCHANGED <<tries, at, module, broken, fs>>

Current == {a \in Archives : queue # <<>> /\ a = Head(queue)}

-----------------------------------------------------------------------------
(***************************************************************************)
(* The archive and the share.                                              *)
(***************************************************************************)

\* parseNar: the nodes, each with its path from the root of the archive.
parseNar(tree) == {[path |-> p, node |-> tree[p]] : p \in DOMAIN tree}

\* Where names lead from a directory while no link is met: Places[n] is where
\* the first n of them do.
Places(dir, names) ==
  LET place[n \in 0 .. Len(names)] ==
        IF n = 0 THEN dir
        ELSE IF names[n] = ".." THEN Front(place[n - 1])
        ELSE Append(place[n - 1], names[n])
  IN  place
Place(dir, names) == Places(dir, names)[Len(names)]

\* Mutant: resolved against the link itself.
targetFromLink(link, target) ==
  IF target.absolute THEN target.names ELSE Place(link, target.names)

\* The target of a link, resolved against the directory the link is in.
absoluteTarget(link, target) ==
  IF target.absolute THEN target.names ELSE Place(Front(link), target.names)

\* What is written of one node.
Entry(path, node) ==
  IF node.type # "symlink" THEN node
  ELSE [type |-> "symlink",
        target |-> [absolute |-> TRUE, names |-> absoluteTarget(path, node.target)]]

\* Every entry under the store path's directory, which held none of them.
writeEntries(share, root, entries) ==
  LET new == {root \o e.path : e \in entries}
  IN  [p \in DOMAIN share \cup new |->
         IF p \in new THEN Entry(p, (CHOOSE e \in entries : root \o e.path = p).node)
         ELSE share[p]]

Root(a) == <<"store", a>>

\* The task of the boot or the add: parsed and written in one go.
Write(a) ==
  /\ status[a] = "done"
  /\ status' = [status EXCEPT ![a] = "written"]
  /\ fs' = writeEntries(fs, Root(a), parseNar(Tree[a]))
  /\ UNCHANGED <<queue, tries, engine, blame, unpacked>>

-----------------------------------------------------------------------------
Init ==
  /\ status = [a \in Archives |-> "idle"] /\ queue = <<>>
  /\ tries = [a \in Archives |-> 0]
  /\ at = 0 /\ filled = 0 /\ decoders = {} /\ module = "none" /\ broken = FALSE
  /\ blame = [a \in Archives |-> "nothing"] /\ unpacked = [a \in Archives |-> 0] /\ fs = <<>>

Decoding ==
  \E a \in Current :
    Start(a) \/ Loaded(a) \/ LoadFails(a) \/ NoDecoder(a) \/ Stream(a) \/ Push(a) \/ Finish(a)

Next == Decoding \/ \E a \in Archives : Decompress(a) \/ Write(a)

\* A decoder that is running runs on, and a fetch of its module ends.
Spec == Init /\ [][Next]_vars /\ WF_vars(Decoding)

-----------------------------------------------------------------------------
(***************************************************************************)
(* Properties.                                                             *)
(***************************************************************************)

\* Every decode that was asked for comes to its turn and to an end, whatever
\* became of those before it; store.js:32.
QueueDrains == \A a \in Archives : status[a] = "waiting" ~> status[a] \in Settled

\* An archive is called bad for its own decode only, because its bytes were
\* refused or, which the code does not tell apart, no decoder was to be had for
\* it; never for the decode it waited behind, nor when it is bzip2's module
\* that did not load; store.js:32, 178.
OwnVerdict ==
  \A a \in Archives :
    /\ status[a] = "failed" => blame[a] \in {"bytes", "decoder"}
    /\ status[a] = "unavailable" => codec[a] = "bzip2" /\ blame[a] = "decoder"

\* A bzip2 archive that is handed on fills the buffer its narinfo asked for to
\* the last byte, it is never written past, and at most one decoder holds wasm
\* memory, none when no decode is under way; store.js:247-316.
BuffersFit ==
  /\ \A a \in Archives :
       codec[a] = "bzip2" /\ status[a] \in {"done", "written"} => narSize[a] \in {0, unpacked[a]}
  /\ \A a \in Current : narSize[a] = 0 \/ status[a] # "decoding" \/ filled <= narSize[a]
  /\ decoders \subseteq {a \in Current : status[a] = "decoding"}

\* What the written archives are as they were packed.
Paths == UNION {{Root(a) \o p : p \in DOMAIN Tree[a]} : a \in {b \in Archives : status[b] = "written"}}
packed == [p \in Paths |-> Tree[p[2]][SubSeq(p, 3, Len(p))]]

\* The kernel's walk along the names that are left from where it is at.  It
\* goes up or down by each name in turn, up to the first that is a link.
Met(f, s) ==
  {i \in DOMAIN s.left :
     /\ s.left[i] # ".."
     /\ LET p == Places(s.at, s.left)[i] IN p \in DOMAIN f /\ f[p].type = "symlink"}

\* That link is followed: its target is walked before what is left behind it.
Follow(f, s) ==
  LET i      == Min(Met(f, s))
      link   == Places(s.at, s.left)[i]
      target == f[link].target
  IN  IF Met(f, s) = {} THEN s
      ELSE [at   |-> IF target.absolute THEN <<>> ELSE Front(link),
            left |-> target.names \o SubSeq(s.left, i + 1, Len(s.left))]

\* The walk along a path after so many links, and where it ends, if that many
\* are enough.
Walk(f, path) ==
  LET walk[n \in 0 .. MaxLinks] ==
        IF n = 0 THEN [at |-> <<>>, left |-> path] ELSE Follow(f, walk[n - 1])
  IN  walk
Leads(f, path) ==
  LET s == Walk(f, path)[MaxLinks]
  IN  IF Met(f, s) = {} THEN [to |-> Place(s.at, s.left)] ELSE [error |-> "ELOOP"]

\* Relative targets go up first, not above the root, and then down: what goes up
\* again after a name, the code takes as it is spelt, where the kernel would
\* follow the name; store.js:356.
LinksRiseFirst ==
  \A a \in Archives : \A p \in DOMAIN Tree[a] :
    LET node == Tree[a][p]
    IN  node.type = "symlink" /\ ~node.target.absolute =>
          \E up \in 0 .. Len(p) + 1 : \A i \in DOMAIN node.target.names :
            node.target.names[i] = ".." <=> i <= up

\* Every path of an archive leads in the share to where it leads in the archive
\* as it was packed, through whatever links it takes, of its own and of other
\* archives, or takes too many in both (given LinksRiseFirst); store.js:328.
ShareIsArchive ==
  /\ DOMAIN fs = Paths
  /\ \A p \in Paths : fs[p].type = packed[p].type /\ Leads(fs, p) = Leads(packed, p)
=============================================================================
