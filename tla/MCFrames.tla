-------------------------------- MODULE MCFrames --------------------------------
(* Frames for TLC: a PDU of each kind of location and header expansion the code *)
(* tells apart, an unknown stream, and messages with bytes to escape, abandoned,*)
(* too long, and of another protocol.                                           *)
EXTENDS Frames

Pdu(codec, stream, hef, prog, packets) ==
  [codec |-> codec, stream |-> stream, hef |-> hef, prog |-> prog, packets |-> packets]

Core == Pdu(0, 0, << >>, 0, <<<<1>>, <<2, 3>>>>)
Second == Pdu(1, 0, <<<<147, 129, 2>>>>, 1, <<<<4, 5>>, <<6>>, <<7>>>>)
Enhanced == Pdu(2, 1, <<<<128>>, <<145, 129, 2>>>>, 0, <<<<8, 9, 10>>>>)
Other == Pdu(13, 0, <<<<200, 129, 129, 129>>, <<16>>>>, 0, <<<<11>>, <<12>>>>)
Unknown == Pdu(10, 2, << >>, 0, <<<<13, 14>>>>)

AllShapes ==
  [k \in Kind |->
     IF k = "audio" THEN {<<Core>>, <<Core, Second>>, <<Second, Core>>, <<Enhanced, Core>>,
                          <<Other, Core>>, <<Core, Unknown, Second>>}
     ELSE IF k = "audioFixed" THEN {<<Core>>, <<Enhanced>>} ELSE {}]

Short == <<33, 7, 1, 2>>
Stuffed == <<33, 126, 125, 3, 4>>
TooLong == <<33, 126, 125, 8, 5, 6>>
Foreign == <<65, 5, 6>>
PsdMessages == <<Whole(Short), Abandoned(Stuffed, 4), Whole(Stuffed), Whole(TooLong), Whole(Foreign)>>
LengthThree == <<0, 0, 0, 3, 0, 1, 2>>
=============================================================================
