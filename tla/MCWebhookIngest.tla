-------------------------- MODULE MCWebhookIngest ---------------------------
(* An instance of WebhookIngest for TLC. *)
EXTENDS WebhookIngest

(* GitHub always sends an id and a header; other providers may send an id. *)
GithubHooks ==
    [id : {TRUE}, signed : {TRUE}, large : {FALSE},
     header : {"create", "issues", "push", "ping"}, action : {"", "opened"},
     ref_type : {"", "branch", "tag"}]
OtherHooks ==
    [id : BOOLEAN, signed : BOOLEAN, large : BOOLEAN,
     header : {""}, action : {""}, ref_type : {""}]
MCHooks == {h \in GithubHooks : /\ h.action # "" => h.header = "issues"
                               /\ h.ref_type # "" <=> h.header = "create"}
           \cup OtherHooks

MCTriggers == {"github:push", "github:issue_opened", "github:branch_created",
               "webhooks:catch_hook", NoTrigger}
=============================================================================
