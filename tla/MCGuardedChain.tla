--------------------------- MODULE MCGuardedChain ---------------------------
(* Small instances of GuardedChain: the command lines the agent gives.     *)
EXTENDS GuardedChain

C(name, plain, inside) == [name |-> name, plain |-> plain, inside |-> inside]
list == C("list", TRUE, TRUE)
cd == C("cd", TRUE, TRUE)
make == C("make", TRUE, TRUE)

LinesOf(segments, operators, size) ==
    [seg: [1 .. size -> segments], op: [1 .. size - 1 -> operators], long: {FALSE}]

\* Every shape of a short line, empty segments and declined words included;
\* chains of up to four commands, and one longer than the arrays.
AllLines ==
    LinesOf({list, cd, make, C("", TRUE, TRUE), C("list", FALSE, TRUE),
             C("git", TRUE, TRUE), C("git", FALSE, TRUE), C("cd", TRUE, FALSE),
             C("make", TRUE, FALSE), C("script", TRUE, TRUE)}, Operator, 1)
    \cup LinesOf({list, cd, make, C("", TRUE, TRUE)}, Operator, 2)
    \cup LinesOf({list, cd}, {"&&", ";", "|"}, 3)
    \cup LinesOf({list, cd}, {"&&", ";", "|"}, 4)
    \cup LinesOf({make}, {"&&", ";"}, 3)
    \cup {[seg |-> <<list, list, list, list, last>>, op |-> <<";", ";", ";", ";">>, long |-> FALSE] :
            last \in {list, C("", TRUE, TRUE)}}
    \cup {[seg |-> <<list>>, op |-> <<>>, long |-> TRUE]}
=============================================================================
