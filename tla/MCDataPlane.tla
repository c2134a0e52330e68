----------------------------- MODULE MCDataPlane -----------------------------
(***************************************************************************)
(* Instances of DataPlane for TLC: messages about the limits of each tag,  *)
(* NDEF records with short and normal headers, with and without id, and    *)
(* with fields of zero to three bytes over a multiple of three; parameters *)
(* that are neighbours in the store.                                       *)
(***************************************************************************)
EXTENDS DataPlane

MCMsgLens == [T1T |-> {5, 89, 90, 96}, T2T |-> {5, 45, 46, 48},
              T3T |-> {5, 40, 1007, 1008}, T4T |-> {5, 60, 1021, 1022}]

MCRec(flags, tnf, type, id, payload) ==
  [flags |-> flags, tnf |-> tnf, type |-> type, id |-> id, payload |-> payload]
Text  == MCRec({SR}, 1, <<84>>, <<>>, <<2, 101, 110, 72, 105>>)
Zero  == MCRec({SR}, 2, <<97, 47>>, <<>>, <<7, 0>>)
Long  == MCRec({}, 1, <<85>>, <<>>, [i \in 1..30 |-> (37 * i) % 256])
WithId == MCRec({SR}, 4, <<120, 58, 121>>, <<1, 255>>, <<255, 254, 253, 252>>)
IdFlag == MCRec({IL, MB}, 0, <<>>, <<>>, <<>>)
Huge  == MCRec({SR}, 5, <<>>, <<>>, [i \in 1..192 |-> i])
Whole == MCRec({SR}, 1, <<84, 65>>, <<>>, [i \in 1..186 |-> i])      \* fills the room
Round == MCRec({SR}, 2, <<97, 47, 64>>, <<>>, <<1, 2, 3, 4, 5, 128>>)  \* whole groups, last bits zero

MCHostMsgs == {<<Text>>, <<Zero, Text>>, <<Long, Zero, Text>>, <<Long>>, <<WithId, Text>>, <<Round>>, <<>>}
MCMeant == {<<Text>>, <<Zero, Text>>, <<Long, WithId>>, <<WithId, Long, Zero>>,
            <<Text, IdFlag>>, <<Huge>>, <<Whole, Text>>, <<Whole, Whole>>}

MCField(id, val) == [id |-> id, val |-> val]
MCConfigFields ==
  {MCField(0, <<>>), MCField(0, <<1>>), MCField(0, <<2, 3>>), MCField(40, <<4>>),
   MCField(41, [i \in 1..20 |-> 20 + i]), MCField(41, <<>>), MCField(48, <<7>>),
   MCField(183, <<8, 9, 1>>), MCField(183, <<2>>), MCField(1, <<1>>)}
==============================================================================
