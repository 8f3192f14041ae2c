------------------------------ MODULE MCRepoSync ------------------------------
(***************************************************************************)
(* Small instances of RepoSync for TLC.  A behaviour's requests are taken  *)
(* from one menu, so that each group of operations meets the others it can *)
(* disturb, and the whole stays small.                                     *)
(***************************************************************************)
EXTENDS RepoSync

CONSTANTS main, f1, f2, no_url, ws_url, no_repo, r1, r2, d1, d2, u1, l1, l2

MCFeature == <<f1, f2>>
MCMenu ==
  { {"pull", "fetch", "others", "commit", "check"},
    {"push", "fetch", "others", "exit"},
    {"push", "pull", "commit", "exit"},
    {"pull", "agent", "commit", "others"},
    {"enable", "exit"},
    {"enable", "create", "exit"},
    {"enable", "delete", "check"},
    {"delete", "pull", "login", "exit"},
    {"update", "push"},
    {"mirrors dir", "pull", "commit", "exit"} }
MCSquash == { {"push"} }
=============================================================================
