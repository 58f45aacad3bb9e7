------------------------- MODULE MCPackageExchange -------------------------
(***************************************************************************)
(* Two publishers, one of them with --force in the passing run, one        *)
(* installer and two packages.                                             *)
(***************************************************************************)
EXTENDS PackageExchange

MCContent == {"x", "y"}
MCDigest == [x |-> "digest of x", y |-> "digest of y"]

MCPublisher == {"p", "q"}
MCInstaller == {"i"}
OneForced == {"q"}
NoneForced == {}
=============================================================================
