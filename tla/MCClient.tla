------------------------------ MODULE MCClient ------------------------------
\* Model-checking instance of what the pages of the web client do with the server:
\* the report queue and its administrators, the buttons, the redirect of a link, who is
\* signed in, and the post form.  They share nothing; a behaviour is one of them, chosen at the start.
EXTENDS Moderation, Buttons, Clicks, SignIn, CreatePost, TLC

CONSTANT Parts  \* those that are checked

VARIABLE part

vars == <<part, moderationVars, buttonsVars, clicksVars, signInVars, createPostVars>>

Init ==
  /\ part \in Parts
  /\ ModerationInit /\ ButtonsInit /\ ClicksInit /\ SignInInit /\ CreatePostInit
  \* What the other parts choose at the start does not matter.
  /\ part # "moderation" => \A s \in Subjects : kindOf[s] = "POST"
  /\ part # "buttons" => button = [name |-> "block", given |-> FALSE] /\ server = None

Next ==
  /\ UNCHANGED part
  /\ \/ /\ part = "moderation" /\ ModerationNext
        /\ UNCHANGED <<buttonsVars, clicksVars, signInVars, createPostVars>>
     \/ /\ part = "buttons" /\ ButtonsNext
        /\ UNCHANGED <<moderationVars, clicksVars, signInVars, createPostVars>>
     \/ /\ part = "clicks" /\ ClicksNext
        /\ UNCHANGED <<moderationVars, buttonsVars, signInVars, createPostVars>>
     \/ /\ part = "signin" /\ SignInNext
        /\ UNCHANGED <<moderationVars, buttonsVars, clicksVars, createPostVars>>
     \/ /\ part = "create" /\ CreatePostNext
        /\ UNCHANGED <<moderationVars, buttonsVars, clicksVars, signInVars>>

Spec == Init /\ [][Next]_vars

TypeOK ==
  ModerationTypeOK /\ ButtonsTypeOK /\ ClicksTypeOK /\ SignInTypeOK /\ CreatePostTypeOK
=============================================================================
