----------------------------- MODULE PostAccess -----------------------------
(***************************************************************************)
(* Who may interact with which post: soft deletion of posts, bans of       *)
(* accounts and blocks between users, as the interactions of SocialService *)
(* read them through assertPostVisible and assertNotBlocked.               *)
(*                                                                         *)
(* The handlers that write this state (PostsService, AdminService,         *)
(* BlocksService) are reduced here to the single UPDATE, INSERT or DELETE  *)
(* the interactions can observe.                                           *)
(***************************************************************************)
EXTENDS Integers, FiniteSets

CONSTANTS
  Users,
  Posts,
  Author     \* the author of each post

ASSUME AccessAssumption ==
  IsFiniteSet(Users) /\ IsFiniteSet(Posts) /\ Author \in [Posts -> Users]

VARIABLES
  removedPosts,  \* posts with deleted_at set
  banned,        \* users with banned_at set
  blocks         \* rows of blocks: <<blocker, blocked>>

accessVars == <<removedPosts, banned, blocks>>

AccessTypeOK ==
  /\ removedPosts \subseteq Posts
  /\ banned \subseteq Users
  /\ blocks \subseteq Users \X Users

AccessInit ==
  /\ removedPosts = {}
  /\ banned = {}
  /\ blocks = {}

\* assertPostVisible, and VISIBLE_POST_WHERE of the read paths.
PostVisible(p) == p \notin removedPosts /\ Author[p] \notin banned

\* isBlockedEitherWay: one never blocks oneself.
BlockedEitherWay(u, v) == u # v /\ {<<u, v>>, <<v, u>>} \cap blocks # {}

RemovePost(p) ==
  /\ p \notin removedPosts
  /\ removedPosts' = removedPosts \cup {p}
  /\ UNCHANGED <<banned, blocks>>

RestorePost(p) ==
  /\ p \in removedPosts
  /\ removedPosts' = removedPosts \ {p}
  /\ UNCHANGED <<banned, blocks>>

Ban(u) ==
  /\ banned' = banned \cup {u}
  /\ UNCHANGED <<removedPosts, blocks>>

Unban(u) ==
  /\ banned' = banned \ {u}
  /\ UNCHANGED <<removedPosts, blocks>>

Block(u, v) ==
  /\ u # v
  /\ blocks' = blocks \cup {<<u, v>>}
  /\ UNCHANGED <<removedPosts, banned>>

Unblock(u, v) ==
  /\ blocks' = blocks \ {<<u, v>>}
  /\ UNCHANGED <<removedPosts, banned>>

AccessNext ==
  \/ \E p \in Posts : RemovePost(p) \/ RestorePost(p)
  \/ \E u \in Users : Ban(u) \/ Unban(u)
  \/ \E u, v \in Users : Block(u, v) \/ Unblock(u, v)
=============================================================================
