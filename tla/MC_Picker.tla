------------------------------ MODULE MC_Picker ------------------------------
(***************************************************************************)
(* Two attributes in shards of their own.  Of jq 1.7, its prerelease and    *)
(* 1.10 were built and 1 was not; of yq there is one version.              *)
(***************************************************************************)
EXTENDS Picker

CONSTANTS nothing

Part(sep, lex, num) == [sep |-> sep, lex |-> lex, num |-> num]
One == Part("", 1, 1)
Ten == Part(".", 2, 10)
Seven == Part(".", 3, 7)
Prerelease == Part("-", 4, -1)

MCAttrs == <<"jq", "yq">>
MCShardOf == [jq |-> "jq", yq |-> "yq"]
MCBuilt == [yq |-> {<<One>>}, jq |-> {<<One, Seven>>, <<One, Seven, Prerelease>>, <<One, Ten>>}]
MCShipped == [yq |-> {<<One>>}, jq |-> {<<One>>, <<One, Seven>>}]

MCIncludes == [q |-> {"jq", "yq"}, z |-> {}]
MCRank == [text \in {"q", "z"} |-> [jq |-> 2, yq |-> 2]]

Name == [mode |-> "attr", prefix |-> "yq"]
Version == [mode |-> "version", attr |-> "jq", prefix |-> "1"]
MCBegins == (Name :> {"yq"}) @@ (Version :> {<<One, Seven>>, <<One, Ten>>})
MCFragments == DOMAIN MCBegins

Spec1(attr, operator, pattern) == [attr |-> attr, operator |-> operator, pattern |-> pattern]
MCLines ==
  {<<Spec1("jq", "prefix", <<One, Part(".", 1, 1)>>), Spec1("yq", "any", <<>>)>>,
   <<Spec1("jq", "<", <<One, Ten>>)>>}

ASSUME VersionsInOrder
=============================================================================
