----------------------------- MODULE MCNetwork ------------------------------
(* Two networks.  In the first, end node a sends over a link of two virtual  *)
(* channels to the switch s, one channel for the messages to y and one for   *)
(* those to z; s, y and z are on a bus with end node b.  The second, from f  *)
(* to g, has a fixed latency.  Buffers are named after their node.           *)
EXTENDS Network

CONSTANTS m1, m2, m3, m4, m5

Hop(b, n) == [buffer |-> b, next |-> n]

MCBuffers   == {"a.o1", "a.o2", "s.i1", "s.i2", "s.out", "b.out", "y.in", "z.in", "f.out"}
MCNodeOf    == [x \in MCBuffers |->
                   CASE x \in {"a.o1", "a.o2"} -> "a" [] x \in {"s.i1", "s.i2", "s.out"} -> "s"
                     [] x = "b.out" -> "b" [] x = "y.in" -> "y" [] x = "z.in" -> "z" [] x = "f.out" -> "f"]
MCBufSize   == [x \in MCBuffers |-> 4]
MCConns     == {"as", "bus"}
MCConnOf    == [x \in {"a.o1", "a.o2", "s.out", "b.out"} |->
                   IF x \in {"a.o1", "a.o2"} THEN "as" ELSE "bus"]
MCKind      == [c \in MCConns |-> IF c = "as" THEN "link" ELSE "bus"]
MCSources   == [c \in MCConns |-> IF c = "as" THEN <<"a.o1", "a.o2">> ELSE <<"s.out", "b.out">>]
MCDests     == [c \in MCConns |-> IF c = "as" THEN <<"s.i1", "s.i2">> ELSE <<"y.in", "z.in">>]
MCOneLane   == [c \in MCConns |-> 1]
MCBandwidth == [c \in MCConns |-> 1]
MCSwBand    == [n \in {"s"} |-> 1]
MCInputs    == [n \in {"s"} |-> <<"s.i1", "s.i2">>]
MCRoute     == [n \in {"a", "b", "s", "f"} |-> [d \in {"y", "z", "g"} |->
                   CASE n = "a" -> Hop(IF d = "y" THEN "a.o1" ELSE "a.o2", "s")
                     [] n = "s" -> Hop("s.out", d) [] n = "b" -> Hop("b.out", d)
                     [] n = "f" -> Hop("f.out", d)]]
\* In packets of two bytes m1 is a message of two packets.
MCSize      == [m \in Messages |-> IF m = m1 THEN 3 ELSE 1]
MCSrc       == [m \in Messages |-> CASE m = m4 -> "b" [] m = m5 -> "f" [] OTHER -> "a"]
MCDst       == [m \in Messages |-> CASE m = m3 -> "y" [] m = m5 -> "g" [] OTHER -> "z"]
MCLatency   == [m \in Messages |-> IF m = m5 THEN 1 ELSE 0]
=============================================================================
