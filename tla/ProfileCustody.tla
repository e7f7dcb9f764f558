--------------------------- MODULE ProfileCustody ----------------------------
(***************************************************************************)
(* What the browser fleet promises the owner of a profile: it changes      *)
(* hands, and its saved state changes, only while no browser has it open.  *)
(***************************************************************************)
CONSTANTS Session, Profile, ProfileOf, NoSession

VARIABLES
    holder,             \* holder[p]: the session that has profile p
    open                \* sessions whose browser runs

AbsInit == holder = [p \in Profile |-> NoSession] /\ open = {}

Take(s) ==
    /\ holder[ProfileOf[s]] = NoSession
    /\ holder' = [holder EXCEPT ![ProfileOf[s]] = s]
    /\ UNCHANGED open

Open(s) ==
    /\ holder[ProfileOf[s]] = s
    /\ open' = open \cup {s}
    /\ UNCHANGED holder

Close(s) == open' = open \ {s} /\ UNCHANGED holder

Leave(s) ==
    /\ holder[ProfileOf[s]] = s /\ s \notin open
    /\ holder' = [holder EXCEPT ![ProfileOf[s]] = NoSession]
    /\ UNCHANGED open

AbsNext == \E s \in Session : Take(s) \/ Open(s) \/ Close(s) \/ Leave(s)

AbsSpec == AbsInit /\ [][AbsNext]_<<holder, open>>
=============================================================================
