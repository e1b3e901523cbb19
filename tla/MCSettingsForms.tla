-------------------------- MODULE MCSettingsForms --------------------------
(* Two items of each list, two knowledge types. *)
EXTENDS SettingsForms

MCItems == {1, 2}
MCTypes == {1, 2}
MCTours ==
    {{"types", "metadata", "add"}, {"users", "webhooks", "add"}, {"ai", "github"},
     {"general", "notifications"}, {"general", "knowledge", "limit"},
     {"knowledge", "types", "rank"}, {"knowledge", "add", "knowledge-type"},
     {"general", "divisions"}, {"divisions", "teams", "leads"}, {"divisions", "add"},
     {"teams", "add", "team"}, {"teams", "add", "team-members"}, {"divisions", "division"},
     {"divisions", "division-members"}}
MCLimits == {2, 3}
=============================================================================
