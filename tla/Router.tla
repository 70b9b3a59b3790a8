--------------------------------- MODULE Router ---------------------------------
(***************************************************************************)
(* The routes of internal/transport/http/http.go and the middleware of     *)
(* their groups, as operators: which handler a request reaches, if any.    *)
(* The paths are below /api/v1 and split at each slash.                    *)
(***************************************************************************)
EXTENDS Integers, Sequences

Group(group, table) ==
  [i \in DOMAIN table |-> [group |-> group, method |-> table[i][1],
                           path |-> table[i][2], handler |-> table[i][3]]]

\* The route with the id before those it matches as well.
MutQuestRoutes ==
  <<<<"GET", <<"quests", "{id}">>, "getQuest">>,
    <<"GET", <<"quests", "created">>, "getQuestsByUser">>,
    <<"GET", <<"quests", "available">>, "getAvailableQuests">>>>

QuestRoutes ==
  <<<<"POST", <<"quests">>, "createQuest">>,
    <<"GET", <<"quests", "created">>, "getQuestsByUser">>,
    <<"GET", <<"quests", "available">>, "getAvailableQuests">>,
    <<"GET", <<"quests", "{id}">>, "getQuest">>,
    <<"PUT", <<"quests", "{id}">>, "updateQuest">>,
    <<"DELETE", <<"quests", "{id}">>, "deleteQuest">>,
    <<"POST", <<"quests", "{id}", "send">>, "sendQuest">>,
    <<"POST", <<"quests", "{id}", "start">>, "startQuest">>,
    <<"POST", <<"quests", "{id}", "next">>, "checkAnswer">>,
    <<"GET", <<"quests", "{id}", "status">>, "status">>>>

Routes ==
  Group("auth", <<<<"POST", <<"login">>, "login">>,
                  <<"POST", <<"register">>, "register">>>>)
  \o Group("media", <<<<"POST", <<"media", "upload">>, "uploadMedia">>,
                      <<"GET", <<"media", "{id}">>, "getMedia">>>>)
  \o Group("api", <<<<"GET", <<"profile">>, "getCurrentUser">>,
                    <<"PUT", <<"profile">>, "updateUser">>>>)
  \o Group("api", QuestRoutes)

\* The variable {id} matches any one segment.
Matches(pattern, path) ==
  /\ Len(pattern) = Len(path)
  /\ \A i \in DOMAIN pattern : pattern[i] \in {"{id}", path[i]}

Nowhere(status) == [group |-> "none", method |-> "none", path |-> << >>,
                    handler |-> status]

\* The first route with the path and the method; without one no middleware runs.
Route(method, path) ==
  LET onPath == {i \in DOMAIN Routes : Matches(Routes[i].path, path)}
      hits == {i \in onPath : Routes[i].method = method}
  IN  IF onPath = {} THEN Nowhere("not_found")
      ELSE IF hits = {} THEN Nowhere("method_not_allowed")
      ELSE Routes[CHOOSE i \in hits : \A j \in hits : i <= j]

\* The middleware in the order of Use: authHandler, then EnforceJSONHandler,
\* which lets a request without a content type pass.  Uploads are not JSON.
Admit(route, token, contentType) ==
  CASE route.group # "auth" /\ ~token -> 401
    [] route.group = "auth" \/ token ->
         CASE route.group # "media" /\ contentType = "malformed" -> 400
           [] route.group # "media" /\ contentType = "other" -> 415
           [] OTHER -> 200
================================================================================
