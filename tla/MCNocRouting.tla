---------------------------- MODULE MCNocRouting ----------------------------
(* Instances of NocRouting for TLC. *)
EXTENDS NocRouting, TLC

\* Four router blocks whose flows cross each other.
Cross == {"a", "b", "c", "d"}
CrossSource == <<"a", "c", "b", "d">>
CrossSink == <<"c", "a", "d", "b">>
CrossBandwidth == <<2, 1, 1, 3>>

At(x, y, z) == [x |-> x, y |-> y, z |-> z]

\* A random placement: the blocks around a square.
PlanarStarts == {"a" :> At(0, 0, 0) @@ "b" :> At(1, 0, 0) @@
                 "c" :> At(1, 1, 0) @@ "d" :> At(0, 1, 0)}

\* Two blocks at opposite corners of a cube.
Pair == {"a", "c"}
PairSource == <<"a", "c">>
PairSink == <<"c", "a">>
PairBandwidth == <<1, 1>>

CubeStarts == {"a" :> At(0, 1, 0) @@ "c" :> At(1, 0, 1)}

\* What murmur3_32 returns for these two flows, modulo 6, at the routers of the
\* cube numbered by x, then y, then z: no distance in it is beyond 3.
Murmur3(s, d, c, f) ==
    <<<<1, 3, 1, 1, 3, 0, 4, 0>>,
      <<5, 3, 3, 1, 0, 1, 3, 1>>>>[f][1 + c.x + 2 * c.y + 4 * c.z]

Number(p) == p.x + 3 * p.y + 6 * p.z

Mixed(s, d, c, f) == 7 * Number(s) + 5 * Number(d) + 3 * Number(c) + f

Ordered(s, d, c) == Number(s) + Number(d) + 3 * Number(c)
=============================================================================
