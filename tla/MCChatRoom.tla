------------------------------ MODULE MCChatRoom ------------------------------
(* Small instances of ChatRoom: u1 and u2 are in the chat, u3 is not.        *)
EXTENDS ChatRoom

CONSTANTS u1, u2, u3, s1, s2, e1, e2
=============================================================================
