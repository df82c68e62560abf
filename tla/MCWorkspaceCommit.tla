-------------------------- MODULE MCWorkspaceCommit --------------------------
(***************************************************************************)
(* A small instance of WorkspaceCommit: two groups and two people, one of  *)
(* them with a user, and drafts of a company, a group and a user.          *)
(***************************************************************************)
EXTENDS WorkspaceCommit
CONSTANTS division, team, ann, bob, company, squad, user1, user2, newUser

At(up) == [parent |-> up, user |-> None]

\* bob is outside of the tree; or he is in it, and an aggregate commit has put
\* the team below him.
MCCatalogs ==
  {[p \in {division, team, ann, bob} |->
      CASE p = division -> At(None)
        [] p = team -> At(teamsUp)
        [] p = ann -> [parent |-> up, user |-> user1]
        [] p = bob -> At(bobsUp)] : <<teamsUp, up, bobsUp>> \in
          {<<division, team, None>>, <<bob, division, division>>}}

MCRank == [x \in {division, team, ann, bob, company, squad, newUser} |->
  CASE x = division -> 1 [] x = team -> 3 [] x = ann -> 2 [] x = bob -> 4
    [] x = company -> 6 [] x = squad -> 5 [] x = newUser -> 7]
=============================================================================
