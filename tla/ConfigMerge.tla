------------------------------ MODULE ConfigMerge ------------------------------
(***************************************************************************)
(* The data of a configuration (internal/config): what one source says,    *)
(* and how sources are normalised, merged and decoded.                     *)
(*                                                                         *)
(* A source is a nested map, which mergo merges member by member, so that  *)
(* the nesting itself does not matter.  Its leaves are Fields.  A value is *)
(* a set of items: one item, a list without its order, or the members of a *)
(* map[string]string (environment), each with a key; {} is the zero value, *)
(* which stands for a field that is not set.                               *)
(*                                                                         *)
(* A field may be spelled in snake case, in camel case, or by a name that  *)
(* normalizeData leaves alone and matchName still accepts ("runcmd" for    *)
(* run_cmd, "ssh_authorized_key").                                         *)
(***************************************************************************)
EXTENDS Naturals, Sequences

CONSTANTS
    Fields,         \* the leaves of CloudConfig
    Simple,         \* fields whose name is one word, equal to its json tag
    Scalars,        \* fields that hold one item
    Maps,           \* fields that hold a map
    Items,          \* what values are made of
    Key             \* Key[x]: the key of x, as a member of a map

\* sysctls, labels and environment have the names of their json tags.
ASSUME MergeAssumption ==
    /\ Simple \subseteq Fields /\ Scalars \subseteq Fields /\ Maps \subseteq Simple
    /\ Key \in [Items -> Items]

Values == SUBSET Items

Config == [Fields -> Values]

Spellings == {"snake", "alias"}

\* What a source says, as it is written, and after normalizeData.
Raw == [Spellings \cup {"camel"} -> Config]
Data == [Spellings -> Config]

Unset == [f \in Fields |-> {}]
Nothing == [s \in Spellings |-> Unset]

\* src in the place of dst, field by field.
Over(src, dst) == [f \in Fields |-> IF src[f] # {} THEN src[f] ELSE dst[f]]

\* What the value v of f has of that which x is a value of: the member of a map
\* with the key of x, or all of v.
Of(f, v, x) == {y \in v : f \in Maps => Key[y] = Key[x]}

\* The camel-case entry takes the place of the snake-case one, if there is one.
normalizeData(raw) ==
    [s \in Spellings |->
        IF s = "snake" THEN Over(raw["camel"], raw["snake"]) ELSE raw["alias"]]

\* Mutant: a map is replaced as a whole.
mergeDataWhole(dst, src) == [s \in Spellings |-> Over(src[s], dst[s])]

\* src over dst with mergo's WithOverride: a map is merged member by member, any
\* other value is replaced.
mergeData(dst, src) ==
    [s \in Spellings |->
        [f \in Fields |-> src[s][f] \cup {x \in dst[s][f] : Of(f, src[s][f], x) = {}}]]

\* Fields with two entries that match: for a field that has the name of its json
\* tag decodeToObj looks that name up; for the others it takes the first match
\* in the order of a Go map.
Mixed(data) ==
    {f \in Fields \ Simple : data["snake"][f] # {} /\ data["alias"][f] # {}}

\* What decodeToObj may return, by the fields for which the alias is met first.
Decoded(data, odd) ==
    [f \in Fields |-> IF data["snake"][f] = {} \/ f \in odd THEN data["alias"][f]
                                                      ELSE data["snake"][f]]

Decodings(data) == {Decoded(data, odd) : odd \in SUBSET Mixed(data)}

\* A list does not fit a field, or a member of a map, that holds one item:
\* decodeToObj fails.
Fits(cfg) == \A f \in Scalars \cup Maps : \A x \in cfg[f] : Of(f, cfg[f], x) = {x}

\* yaml.Marshal writes every field under its snake-case name.
Marshal(cfg) ==
    [s \in Spellings \cup {"camel"} |-> IF s = "snake" THEN cfg ELSE Unset]

-----------------------------------------------------------------------------
(* The kernel command line and the flags file: tokens [key, value].        *)

\* getValue and putValue: a repeated key collects its values in a list.
Collected(tokens, f) ==
    {tokens[n].value : n \in {k \in DOMAIN tokens : tokens[k].key = f}}

parseArgs(tokens) == Marshal([f \in Fields |-> Collected(tokens, f)])
=============================================================================
