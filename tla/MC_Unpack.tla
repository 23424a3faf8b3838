------------------------------ MODULE MC_Unpack ------------------------------
(***************************************************************************)
(* Two bzip2 archives, one with its size and one without, an xz archive    *)
(* and one that is not compressed.  The trees have chains of links within  *)
(* a package, up out of a directory, and into another package, and a link  *)
(* to itself.                                                              *)
(***************************************************************************)
EXTENDS Unpack

Dir == [type |-> "directory"]
File == [type |-> "regular"]
To(names) == [type |-> "symlink", target |-> [absolute |-> FALSE, names |-> names]]
Abs(names) == [type |-> "symlink", target |-> [absolute |-> TRUE, names |-> names]]

Bash ==
  (<<>> :> Dir) @@ (<<"bin">> :> Dir) @@ (<<"bin", "bash">> :> File)
  @@ (<<"bin", "sh">> :> To(<<"bash">>))
  @@ (<<"sbin">> :> To(<<"bin">>))
Glibc ==
  (<<>> :> Dir) @@ (<<"lib">> :> Dir) @@ (<<"lib", "deep">> :> Dir)
  @@ (<<"lib", "libc.so.6">> :> File)
  @@ (<<"lib", "deep", "libc.so">> :> To(<<"..", "libc.so.6">>))
  @@ (<<"lib", "deep", "sh">> :> To(<<"..", "..", "..", "bash", "sbin", "sh">>))
Tool ==
  (<<>> :> Dir) @@ (<<"lib">> :> Abs(<<"store", "glibc", "lib">>))
  @@ (<<"libc.so">> :> To(<<"lib", "deep", "libc.so">>))
  @@ (<<"sh">> :> To(<<"sh">>))

MCArchives == {"bash", "doc", "glibc", "tool"}
MCCodec == [doc |-> "none", bash |-> "stream", glibc |-> "bzip2", tool |-> "bzip2"]
MCNarSize == [doc |-> 0, bash |-> 2, glibc |-> 2, tool |-> 0]
MCTree == [doc |-> <<>> :> File, bash |-> Bash, glibc |-> Glibc, tool |-> Tool]
MCNames == MCArchives \cup {"store", "bin", "sbin", "lib", "deep", "sh", "libc.so", "libc.so.6"}

ASSUME LinksRiseFirst
=============================================================================
