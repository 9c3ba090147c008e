---------------------------- MODULE ConfigLayers ----------------------------
(***************************************************************************)
(* The configuration of the agent (glpi-core config): agent.cfg, the       *)
(* drop-ins of conf.d in lexical order and the GLPI_AGENT_* variables are  *)
(* read as layers and applied one over the other.                          *)
(*                                                                         *)
(* Data: the value of a line is a sequence of words, of which `cut` come   *)
(* before the first `#` or `;` of the line; a text is one word.            *)
(***************************************************************************)
EXTENDS Naturals, Sequences, SequencesExt

CONSTANTS
    Numbers,   \* words that parse as a number
    Booleans,  \* words that parse as a boolean
    Mangled    \* a word with a quote left in front

ListKey == {"server", "tasks", "no-task", "no-category", "httpd-trust"}
TextKey == {"local", "proxy", "tag", "httpd-ip"}
NumberKey == {"delaytime", "conf-reload-interval", "httpd-port", "debug"}
BooleanKey == {"lazy", "no-httpd", "no-ssl-check"}
Key == ListKey \cup TextKey \cup NumberKey \cup BooleanKey

BlankLine == [form |-> "blank", key |-> "", words |-> <<>>, cut |-> 0, quoted |-> FALSE]
NoPair == [BlankLine EXCEPT !.form = "bare"]
Pair(key, words) ==
    [form |-> "pair", key |-> key, words |-> words, cut |-> Len(words), quoted |-> FALSE]
-----------------------------------------------------------------------------
Default == [k \in Key |-> <<>>]

\* The comment is taken off first, quotes or no quotes; quotes that no longer
\* match are part of the value.
ValueOf(line) ==
    LET kept == SubSeq(line.words, 1, line.cut)
    IN IF line.quoted /\ line.cut < Len(line.words)
       THEN <<Mangled>> \o Tail(kept) ELSE kept

\* number, boolean
Valid(key, value) ==
    /\ key \in NumberKey => Len(value) = 1 /\ value[1] \in Numbers
    /\ key \in BooleanKey => Len(value) = 1 /\ value[1] \in Booleans

\* A key that is not known is left out, whatever its value.
apply_pair(partial, line) ==
    IF line.key \notin Key THEN partial
    ELSE [k \in DOMAIN partial \cup {line.key} |->
             IF k = line.key THEN ValueOf(line) ELSE partial[k]]

Loads(lines) ==
    \A i \in 1..Len(lines) :
        /\ lines[i].form # "bare"
        /\ lines[i].form = "pair" => Valid(lines[i].key, ValueOf(lines[i]))

Unset == [k \in {} |-> <<>>]

parse_cfg(lines) ==
    FoldLeft(apply_pair, Unset, SelectSeq(lines, LAMBDA l : l.form = "pair"))

\* from_env: a variable has no comment and no quotes; every entry is a pair.
from_env(variables) ==
    FoldLeft(apply_pair, Unset,
             [i \in 1..Len(variables) |-> Pair(variables[i].key, variables[i].words)])

\* Wrong: a layer that sets nothing takes the value away.
apply_Resets(base, layer) ==
    [k \in Key |-> IF k \in DOMAIN layer THEN layer[k] ELSE Default[k]]

apply(base, layer) == [k \in Key |-> IF k \in DOMAIN layer THEN layer[k] ELSE base[k]]

resolve(layers) == FoldLeft(apply, Default, layers)

\* `dropins` are the *.cfg files of conf.d by name, none without the directory.
layers(source) ==
    <<parse_cfg(source.cfg)>>
        \o [i \in 1..Len(source.dropins) |-> parse_cfg(source.dropins[i])]
        \o <<from_env(source.env)>>

\* One line that does not parse, in any of the sources, fails the whole.
Resolves(source) ==
    /\ Loads(source.cfg)
    /\ \A i \in 1..Len(source.dropins) : Loads(source.dropins[i])
    /\ Loads([i \in 1..Len(source.env) |-> Pair(source.env[i].key, source.env[i].words)])
=============================================================================
