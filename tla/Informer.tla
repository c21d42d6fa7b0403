------------------------------ MODULE Informer ------------------------------
(***************************************************************************)
(* How a controller sees the objects of one kind.                          *)
(*                                                                         *)
(* Every Get and List of the controllers goes through the manager's client *)
(* (main.go), which answers from an informer cache; every Create, Update   *)
(* and Delete goes to the API server, and reaches the cache later, as a    *)
(* watch event.  The objects of one kind are therefore a STREAM, the       *)
(* sequence of their contents from the one the cache holds (the first) to  *)
(* the one the API server stores (the last): what is in between are the    *)
(* watch events still on their way.                                        *)
(*                                                                         *)
(* A read of the cache followed by a write needs no step in between: a     *)
(* change made between the two could as well have come before the read and *)
(* its event after the write, and the stream is as long as that takes.     *)
(*                                                                         *)
(* External: controller-runtime and the API server, as src/ uses them.     *)
(***************************************************************************)
EXTENDS Naturals, Sequences

\* The streams of the contents V: at least one content, the cached one.
Streams(V) == Seq(V) \ {<<>>}

Cached(stream) == stream[1]

Stored(stream) == stream[Len(stream)]

\* The cache has not seen the latest write.
Lagging(stream) == Len(stream) > 1

\* A write that changes nothing stores no new version, and raises no event.
Write(stream, content) ==
  IF content = Stored(stream) THEN stream ELSE Append(stream, content)

\* The next watch event reaches the cache.
Deliver(stream) == Tail(stream)

\* A process that starts lists the API server.
Relist(stream) == <<Stored(stream)>>

\* The bound on the watch events in flight.
Room(stream, maxLag) == Len(stream) <= maxLag
=============================================================================
