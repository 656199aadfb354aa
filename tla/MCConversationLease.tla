------------------------ MODULE MCConversationLease ------------------------
(* Three processes on two machines around one conversation directory.       *)
EXTENDS ConversationLease, TLC

CONSTANTS a, b, c, h1, h2

MCHostOf == (a :> h1) @@ (b :> h1) @@ (c :> h2)

=============================================================================
