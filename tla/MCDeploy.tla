------------------------------ MODULE MCDeploy ------------------------------
(* An installer in two parts below a directory and a second file that has   *)
(* one more digest than the mirrors can give it; checks of every kind and   *)
(* level; actions that can and cannot be done.                              *)
EXTENDS Deploy, TLC

CONSTANTS p, q, junk

C(type, path, value, level) == [type |-> type, path |-> path, value |-> value, level |-> level]
F(path, sha512, multiparts, mirrors) ==
    [path |-> path, sha512 |-> sha512, multiparts |-> multiparts, mirrors |-> mirrors]

inst == <<"inst">>
opt == <<"opt">>
tool == <<"opt", "tool">>
old == <<"old">>

install ==
    [checks |-> <<C("fileSHA512mismatch", inst, <<p, q>>, "ko"),
                  C("fileExists", old, 0, "warning"),
                  C("freespaceGreater", inst, 9, "ko")>>,
     files |-> <<F(inst, <<p, q>>, <<p, q>>, 2), F(tool, <<q>>, <<q>>, 1)>>,
     actions |-> <<[kind |-> "cmd", ret_checks |-> <<>>],
                   [kind |-> "mkdir", path |-> <<"new", "sub">>],
                   [kind |-> "move", from |-> opt, to |-> <<"new", "sub", "opt">>],
                   [kind |-> "delete", path |-> old]>>,
     run_software_inventory |-> TRUE]

\* Its digest is not that of its parts; two files have one path.
wrong ==
    [checks |-> <<C("directoryExists", opt, 0, "ko"), C("fileMissing", inst, 0, "info"),
                  C("fileSizeGreater", old, 1, "ko")>>,
     files |-> <<F(inst, <<p>>, <<p>>, 1), F(inst, <<q>>, <<q>>, 1),
                 F(old, <<p, q>>, <<q, p>>, 1)>>,
     actions |-> <<[kind |-> "delete", path |-> old]>>,
     run_software_inventory |-> TRUE]

verify ==
    [checks |-> <<C("fileSHA512", old, <<p, q>>, "ko"), C("fileExists", tool, 0, "ignore")>>,
     files |-> <<>>,
     actions |-> <<[kind |-> "cmd",
                    ret_checks |-> <<[type |-> "okCode", values |-> {0, 1}],
                                     [type |-> "okPattern", values |-> {"ok"}],
                                     [type |-> "errorPattern", values |-> {"error"}]>>],
                   [kind |-> "move", from |-> old, to |-> opt],
                   [kind |-> "cmd", ret_checks |-> <<>>]>>,
     run_software_inventory |-> FALSE]

\* No mirror.
clear ==
    [checks |-> <<>>, files |-> <<F(old, <<p>>, <<p>>, 0)>>, actions |-> <<>>,
     run_software_inventory |-> FALSE]
\* The empty path is the working directory itself.
reset ==
    [checks |-> <<>>, files |-> <<>>,
     actions |-> <<[kind |-> "delete", path |-> <<>>], [kind |-> "mkdir", path |-> opt],
                   [kind |-> "move", from |-> opt, to |-> opt],
                   [kind |-> "move", from |-> opt, to |-> tool]>>,
     run_software_inventory |-> TRUE]

MCOrders == {install, wrong, verify, clear, reset}
MCDisks == {(<<>> :> Dir), (<<>> :> Dir) @@ (opt :> Dir) @@ (old :> <<p, q>>)}
MCServed == {p, q, junk}
MCIntrusions == {[path |-> inst, content |-> <<junk>>], [path |-> opt, content |-> <<junk>>],
                 [path |-> old, content |-> <<p, q>>]}
=============================================================================
