----------------------------- MODULE MCRequests -----------------------------
(***************************************************************************)
(* Instances of Requests for TLC.                                          *)
(***************************************************************************)
EXTENDS Requests

CONSTANTS
    c1, c2, ctrl, bulk, i1, i2,
    MaxPieces   \* the length of the layouts

Endpoints == [p \in Pipes |-> IF p = ctrl THEN "CTRL" ELSE "BULK_IN"]
Packets == {SetupOf(kind) : kind \in Kinds}
Lengths == {NumBytes(kind) : kind \in Kinds}

\* The first client reads descriptors; the second one sets things and reads data.
Tasks == [t \in Clients |-> IF t = c1 THEN {<<"config", ctrl>>, <<"string", ctrl>>}
                            ELSE {<<"set", ctrl>>, <<"read", bulk>>}]

Desc_(t, n, num, neps) == [type |-> t, len |-> n, num |-> num, neps |-> neps]
Cfg(num) == Desc_(CONFIG, 9, num, 0)
Intf(num, neps) == Desc_(INTERFACE, 9, num, neps)
Ep == Desc_(ENDPOINT, 7, 0, 0)
AudioEp == Desc_(ENDPOINT, 9, 0, 0)
CsIntf(n) == Desc_(CS_INTERFACE, n, 0, 0)
CsEp(n) == Desc_(CS_ENDPOINT, n, 0, 0)
Iad == Desc_(11, 8, 0, 0)
Hid == Desc_(33, 9, 0, 0)

\* A MIDI device, with an association, alternatives, and interfaces in an order that is
\* not the one of their numbers.
Midi == <<Cfg(2), Iad, Intf(1, 0), Intf(0, 0), CsIntf(9), Intf(1, 2), CsIntf(7), CsIntf(6),
          AudioEp, CsEp(5), AudioEp, CsEp(5)>>

\* One whose last endpoint is cut after n bytes.
Cut(n) == <<Cfg(1), Intf(0, 2), CsIntf(231 - n), Ep, Ep>>

\* One the parser does not expect, and one that contradicts itself.
Keyboard == <<Cfg(1), Intf(0, 1), Hid, Ep>>
Missing == <<Cfg(2), Intf(0, 0)>>

\* One with its interfaces in the reverse order, the second of which is cut off.
Reversed == <<Cfg(2), Intf(1, 0), CsIntf(240), Intf(0, 0)>>

Connected == [midi |-> Midi, long |-> Cut(1), keyboard |-> Keyboard, reversed |-> Reversed]

\* All layouts of a few descriptors, with the counters they should have.
Pieces == {Intf(0, 0), Intf(1, 0), Ep, CsIntf(5), CsEp(5), Iad}

Counted(s) ==
    LET d == <<Cfg(Cardinality(Numbers(s)))>> \o s
    IN  [k \in DOMAIN d |->
            IF d[k].type = INTERFACE
            THEN [d[k] EXCEPT !.neps = Cardinality(IndexesOf(d, ENDPOINT)
                                                   \cap (k .. LastOf(d, k)))]
            ELSE d[k]]

LayoutSet ==
    {Midi, Cut(1), Cut(6), Keyboard, Missing, Reversed} \cup
    {Counted(s) : s \in UNION {[1 .. n -> Pieces] : n \in 0 .. MaxPieces}}
BehindSet == {0, INTERFACE, ENDPOINT, CS_INTERFACE, CS_ENDPOINT}
=============================================================================
