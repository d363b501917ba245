--------------------------- MODULE MCUpdateInstall ---------------------------
(* Three versions; good metadata for every newer version, a bundle whose     *)
(* files are not the ones it lists, and metadata with one defect each.       *)
EXTENDS UpdateInstall

CONSTANTS k1, k2

MCVersions == 1 .. 3

MCKeyring ==
    [k \in {k1, k2} |-> [uses |-> {"update"}, domains |-> {"release"},
                         revoked |-> (k = k2)]]

Older(v) == {w \in MCVersions : w < v}

Good(v) ==
    [key |-> k1, use |-> "update", domain |-> "release", issued |-> 0, expires |-> 2,
     signature |-> k1,
     payload |-> [version |-> v, compatible |-> Older(v), platform |-> TRUE,
                  digest |-> TRUE, files |-> "whole"]]

Defective ==
    {[Good(3) EXCEPT !.key = k2, !.signature = k2],
     [Good(3) EXCEPT !.use = "extension"],
     [Good(3) EXCEPT !.domain = "agents"],
     [Good(3) EXCEPT !.issued = 2],
     [Good(3) EXCEPT !.expires = 1],
     [Good(3) EXCEPT !.signature = NoSignature],
     [Good(3) EXCEPT !.payload.platform = FALSE],
     [Good(3) EXCEPT !.payload.compatible = {1, 3}],
     [Good(3) EXCEPT !.payload.digest = FALSE]}

MCOffers ==
    {Good(2), Good(3), [Good(3) EXCEPT !.payload.files = "damaged"]} \cup Defective
=============================================================================
