--------------------------- MODULE MCModDeployment ---------------------------
(* An instance of ModDeployment: a release of a DLL alone and one with its *)
(* runtime manifest.                                                       *)
EXTENDS ModDeployment

MCReleases == {"plain", "paired"}
MCWithManifest == {"paired"}
=============================================================================
