----------------------- MODULE MultiplexerRefinement -----------------------
(***************************************************************************)
(* The multiplexers implement FrontendStreams.  A link is down from the    *)
(* moment shutdown's sweep has released frontendMu; a stream is on the     *)
(* link whose multiplexer created its key and is open as long as its       *)
(* channel is.                                                             *)
(***************************************************************************)
EXTENDS Multiplexer

LinkState(s) ==
  CASE s > made          -> "new"
    [] shut[s] = "swept" -> "down"
    [] OTHER             -> "up"

Streams == INSTANCE FrontendStreams WITH
  newest  <- made,
  serving <- current,
  link    <- [s \in Sessions |-> LinkState(s)],
  stream  <- chan,
  on      <- home

\* Every step of the manager, the multiplexers and the callers is a step of
\* FrontendStreams or changes nothing it can see, and a link that was withdrawn
\* or replaced goes down, even while a client that stopped reading holds the
\* reader up: to a handler, a backend that vanishes closes all its streams at
\* once, and a stream is never opened on a backend already gone.
ImplementsStreams == Streams!Spec

\* The safety half of ImplementsStreams.
ImplementsStreamsSafely == Streams!SafeSpec
=============================================================================
