--------------------------- MODULE MCAlertEpisodes ---------------------------
(***************************************************************************)
(* An instance of AlertEpisodes for TLC: one alarm that comes back, and    *)
(* another one.                                                            *)
(***************************************************************************)
EXTENDS AlertEpisodes

CONSTANTS disk, load, d1, d2

Msg(a, n, s) == [alarm |-> a, onset |-> n, status |-> s]

Fires(a, n)   == Msg(a, n, "firing")
Clears(a, n)  == Msg(a, n, "resolved")

MCMessages == {Fires(disk, 1), Clears(disk, 1), Fires(disk, 2), Fires(load, 1)}

MCLists == {<<Fires(disk, 1)>>, <<Clears(disk, 1)>>, <<Fires(disk, 2)>>,
            <<Fires(disk, 1), Fires(load, 1)>>, <<Fires(load, 1), Fires(disk, 1)>>}
=============================================================================
