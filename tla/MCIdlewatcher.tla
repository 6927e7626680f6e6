--------------------------- MODULE MCIdlewatcher ---------------------------
(* Small instances of Idlewatcher for TLC.                                 *)
EXTENDS Idlewatcher, TLC

CONSTANTS h1, h2

TwoHandlers == {h1, h2}
OneHandler  == {h1}
HandlerSymmetry == Permutations({h1, h2})

SomeKinds == {"plain", "stream"}
Plain == {"plain"}
HealthyOnly == {"healthy"}
AllResults == {"healthy", "unhealthy", "error"}
=============================================================================
