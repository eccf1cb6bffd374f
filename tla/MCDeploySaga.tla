---------------------------- MODULE MCDeploySaga ----------------------------
(* Two overlapping deployments over three channels: two to succeed, in an    *)
(* order the rollback must reverse, and one to fail.                         *)
EXTENDS DeploySaga

CONSTANTS seo, cms, sns

MCOrder == <<seo, cms, sns>>
=============================================================================
