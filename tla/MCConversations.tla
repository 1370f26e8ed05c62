-------------------------- MODULE MCConversations --------------------------
(***************************************************************************)
(* Conversations on a small instance.  At the legacy entry: Ann in two     *)
(* conversations, one of them under two ids that differ after 64           *)
(* characters only, with a token that is renewed; Bob of the same tenant;  *)
(* a namesake of Ann in another; and an API key, once with and once        *)
(* without a bearer token.  At WorkBuddy: two access tokens of one bound   *)
(* key, one of which may write, in one conversation; the first of them in  *)
(* another; and a token of another key.                                    *)
(***************************************************************************)
EXTENDS Conversations

Login(tenant, login) == [tenant |-> tenant, login |-> login]
MCClaims ==
  [old |-> Login("t1", "ann"), new |-> Login("t1", "ann"),
   bobs |-> Login("t1", "bob"), other |-> Login("t2", "ann"),
   reads |-> KeyHolder("key"), writes |-> KeyHolder("key"), owner |-> KeyHolder("key2")]
MCCut == [a |-> "a", aa |-> "a", b |-> "b"]
Headers(bearer, apiKey, conversation) ==
  [bearer |-> bearer, apiKey |-> apiKey, conversation |-> conversation]
MCRequests ==
  [legacy |->
     {Headers("old", Null, "a"), Headers("new", Null, "aa"), Headers("new", "key", "b"),
      Headers("bobs", Null, "a"), Headers("other", Null, "a"), Headers(Null, "key", "a")},
   workbuddy |->
     {Headers("reads", Null, "a"), Headers("writes", Null, "a"), Headers("reads", Null, "aa"),
      Headers("owner", Null, "a")}]
=============================================================================
