--------------------------- MODULE MCModuleRuntime --------------------------
(* More correlations than there is room for jobs, assemblies and results.   *)
EXTENDS ModuleRuntime
CONSTANTS c1, c2, h1

Request(c, accept, deadline, len, more) ==
    [pat |-> "request", corr |-> c, accept |-> accept, hdr |-> h1,
     deadline |-> deadline, len |-> len, more |-> more]
Bare(pat, c) == [Request(c, TRUE, 0, 0, FALSE) EXCEPT !.pat = pat]

(* Whole requests with and without a deadline, a first fragment, a frame    *)
(* the module refuses, a cancel, a stray notification.                      *)
MCInputs ==
    UNION {{Request(c, TRUE, 0, 0, FALSE), Request(c, TRUE, 1, 1, FALSE),
            Request(c, TRUE, 0, 1, TRUE), Request(c, FALSE, 0, 0, FALSE),
            Bare("cancel", c), Bare("other", c)} : c \in Corr}
=============================================================================
