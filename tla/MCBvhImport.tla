---------------------------- MODULE MCBvhImport ----------------------------
(***************************************************************************)
(* Instances of BvhImport: three joints, of which a chain of three is one  *)
(* too deep for the limit, and two frames.                                 *)
(***************************************************************************)
EXTENDS BvhImport

R(axis) == <<"r", axis>>

(* The channel lists that tell the refusals and the layouts apart.         *)
Lists ==
  {<<R("Z"), R("X"), Position("Y"), R("Y")>>, <<Position("X"), Position("X")>>,
   <<R("X"), R("Y"), R("X")>>, <<R("X"), <<"r", "W">> >>}

Times == {-1, 0, 1, NonFinite}

OffsetOrNot == {"finite", "huge", "nonfinite", "word"}

(* Documents a caller may assemble: any parents, sound or not, and         *)
(* declared columns that are off by one.                                   *)
HandJoint(j, parent, shift, channels) ==
  [name |-> "a", parent |-> parent, offset |-> OffsetOf(j, "offset", "finite"),
   channels |-> channels, channelOffset |-> ((j - 1) * Len(channels)) + shift, endSite |-> None]

Assembled ==
  {LET joints == [j \in 1 .. n |-> HandJoint(j, parents[j], shift, channels)]
   IN  [joints |-> joints, channelCount |-> DeclaredChannels(joints), frameCount |-> frames,
        frameTime |-> 1,
        values |-> [i \in 1 .. frames * DeclaredChannels(joints) |->
                      LET width == DeclaredChannels(joints)
                      IN  Number(<<"row", ((i - 1) \div width) + 1, ((i - 1) % width) + 1>>,
                                 "finite")]] :
     n \in 0 .. 3, parents \in [1 .. 3 -> 0 .. 4], frames \in {0, 2}, shift \in {0, 1},
     channels \in {<< >>, <<Position("Z"), R("Y"), R("X"), R("Z")>>}}
=============================================================================
