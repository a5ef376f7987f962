---------------------------- MODULE MCEvaluation ----------------------------
(***************************************************************************)
(* A band of three channels of two units, two local grants and one of a    *)
(* peer on a line, and a generation for every combination of incumbents.   *)
(***************************************************************************)
EXTENDS Evaluation

R(low, high) == [low |-> low, high |-> high]
Z(from, to) == {[from |-> from, to |-> to]}

MCNrqz == [from |-> 40, to |-> 41]
MCOfficeKm == [A |-> 1, B |-> 1]
MCProfile ==
    [fss_cochannel |-> [threshold |-> 5, radius |-> 6], fss_blocking |-> [threshold |-> 5, radius |-> 4],
     gwpz |-> [threshold |-> 8, radius |-> 2], ppa |-> [threshold |-> 5, radius |-> 3],
     esc |-> [threshold |-> 8, radius |-> -1]]
MCPathGain == << 4, 3, 2, 1, 1 >>
MCEscPassband == R(0, 6)

Local(id, cbsd, at, category, r, level, height, ground) ==
    [id |-> id, cbsd |-> cbsd, fad |-> cbsd, at |-> at, category |-> category, range |-> r,
     eirp |-> level, managing |-> TRUE, indoor |-> FALSE, height |-> height, ground |-> ground]

Locals ==
    {{Local(1, "a", 3, category, r, level, 3, 0), second} :
        category \in {"A", "B"}, r \in {R(0, 2), R(2, 6)}, level \in {2, 4},
        second \in {Local(2, "a", 3, "A", R(4, 6), 3, 3, 0), Local(2, "b", 5, "B", R(0, 4), 3, 9, 8)}}

Peer(id) ==
    [id |-> id, at |-> 4, category |-> "B", height |-> 9,
     grants |-> {[id |-> 11, range |-> R(0, 4), eirp |-> 2, terminated |-> FALSE],
                 [id |-> 12, range |-> R(4, 6), eirp |-> 2, terminated |-> TRUE]}]
Fss(r, ttc) == [id |-> "f", at |-> 6, range |-> r, ttc |-> ttc]
Sensor(at, complete) == [at |-> at, range |-> {}, complete |-> complete]
Ppa(zone) == [zone |-> zone, pals |-> {"p1", "p2"}, terminated |-> FALSE]
Wisp(zone) == [id |-> "w", zone |-> zone, range |-> R(4, 6)]

Dpa(zone) ==
    [zone |-> zone, range |-> R(0, 3), limit |-> 12,
     km |-> [k \in {<< "Outdoor", TRUE >>, << "B", TRUE >>, << "B", FALSE >>} |-> IF k[2] THEN 1 ELSE 3]]

(* What makes an evaluation fail, end early, or move everybody.            *)
Plain ==
    [locals |-> {Local(1, "a", 3, "A", R(0, 4), 3, 3, 0), Local(2, "b", 5, "B", R(2, 6), 3, 3, 0)},
     peers |-> {}, exz |-> {}, wisp |-> {}, fss |-> {}, gwbl |-> {},
     pals |-> {[id |-> "p1", range |-> R(0, 2)]}, ppas |-> {}, sensors |-> {},
     connectivity |-> "connected", peerPpas |-> {}, peerSensors |-> {}, dpas |-> {},
     coupling |-> TRUE, loss |-> TRUE]
Odd ==
    {[Plain EXCEPT !.exz = {[zone |-> z, ranges |-> {}]}] : z \in {{}, Z(2, 5)}}
    \cup {[Plain EXCEPT !.fss = {Fss(R(6, 8), t)}] : t \in {"yes", "no", "missing"}}
    \cup {[Plain EXCEPT !.sensors = {Sensor(2, c)}, !.coupling = ~c] : c \in BOOLEAN}
    \cup {[Plain EXCEPT !.connectivity = "invalid"],
          [Plain EXCEPT !.peers = {Peer("a")}, !.peerSensors = {Sensor(6, TRUE)}],
          [Plain EXCEPT !.peerPpas = {Ppa(Z(2, 4))}],
          [Plain EXCEPT !.dpas = {Dpa(Z(4, 5))}, !.loss = FALSE],
          [Plain EXCEPT !.dpas = {Dpa({})}]}

MCSnapshots ==
    {[locals |-> locals, peers |-> peers, exz |-> exz, wisp |-> wisp, fss |-> fss,
      gwbl |-> {}, pals |-> {[id |-> "p1", range |-> R(0, 2)]}, ppas |-> ppas,
      sensors |-> sensors, connectivity |-> connectivity,
      peerPpas |-> IF ppas = {} THEN {} ELSE {Ppa(Z(8, 9))},
      peerSensors |-> peerSensors, dpas |-> dpas, coupling |-> data, loss |-> data] :
        locals \in Locals,
        peers \in {{}, {Peer("c")}},
        exz \in {{}},
        wisp \in {{}, {Wisp(Z(1, 3))}},
        fss \in {{}, {Fss(R(4, 8), "no")}, {Fss(R(3, 5), "no")}},
        ppas \in {{}, {Ppa(Z(2, 6))}},
        sensors \in {{}, {Sensor(2, TRUE)}},
        connectivity \in {"disconnected"},
        peerSensors \in {{}, {Sensor(9, TRUE)}},
        dpas \in {{}, {Dpa(Z(4, 5))}},
        data \in {TRUE}}
    \cup Odd
==============================================================================
