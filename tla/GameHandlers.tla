--------------------------- MODULE GameHandlers ---------------------------
(* The handlers of grpc_client/game: games and bets (jh_game_service).
   For every gRPC service they call: the request messages, the client, and one handler per
   operation.  At the end, the table that route_handler.go (initGameRoutes) makes of them. *)
EXTENDS Handlers

(*** Game, api/backend/game/v1 ***)
GetGamesReq == {"site_id", "search_balance"}
UpdateGamesReq == {"site_id", "data"}
UpdateGamesRes == {"success", "message"}
GetGameRecordsReq == {
    "site_id", "platform", "start_date", "end_date", "page", "size", "username", "type",
    "keywords"}
SupplementBetRecordsReq == {"platform", "start_time", "end_time", "site_codes"}
SupplementBetRecordsRes == {"success", "message", "total_records"}
GetGameListReq == {
    "site_id", "platform", "vendor", "name", "code", "style", "hot", "recommend", "is_new",
    "status", "page", "size"}
UpdateGameListItemReq == {
    "site_id", "id", "alias_name", "hot", "recommend", "is_new", "status", "sort", "cover_url",
    "clear_cover"}
UpdateGameListItemRes == {"success", "message"}
GetGamePlatformsReq == {"site_id", "type"}
GetUserBetStatsReq == {"site_id", "site_code", "user_id", "start_time", "end_time", "platform"}
GetUserBetStatsRes == {"success", "message", "stats"}
GetUserBetSummaryReq == {"start_time", "end_time", "platform"}
GetUserBetSummaryRes == {"success", "message", "summary"}
GetUserBetIncrementBatchReq == {"site_id", "site_code", "cursors"}
GetUserBetIncrementBatchRes == {"success", "message", "list"}
GetSyncTasksReq == {"site_id", "site_code", "platform", "task_type", "status", "page", "size"}
GameClient == [
    GetGames |-> Rpc(GetGamesReq),
    UpdateGames |-> RpcWithVerdict(UpdateGamesReq, UpdateGamesRes),
    GetGameRecords |-> Rpc(GetGameRecordsReq),
    SupplementBetRecords |->
        RpcWithVerdict(SupplementBetRecordsReq, SupplementBetRecordsRes),
    GetGameList |-> Rpc(GetGameListReq),
    UpdateGameListItem |-> RpcWithVerdict(UpdateGameListItemReq, UpdateGameListItemRes),
    GetGamePlatforms |-> Rpc(GetGamePlatformsReq),
    GetUserBetStats |-> RpcWithVerdict(GetUserBetStatsReq, GetUserBetStatsRes),
    GetUserBetSummary |-> RpcWithVerdict(GetUserBetSummaryReq, GetUserBetSummaryRes),
    GetUserBetIncrementBatch |->
        RpcWithVerdict(GetUserBetIncrementBatchReq, GetUserBetIncrementBatchRes),
    GetSyncTasks |-> Rpc(GetSyncTasksReq)]
CallGetGames ==
  LeavingOut({"site_id"}, Taking("search_balance", "seachBlance", FromAny(GameClient, "GetGames")))
CallUpdateGames ==
  Numbers({"data"}, Needing({"data"}, LeavingOut({"site_id"}, FromBody(GameClient, "UpdateGames"))))
CallGetGameRecords ==
  Numbers({"page", "size", "type"}, LeavingOut({"site_id"}, FromBody(GameClient, "GetGameRecords")))
CallGetBackendGameList == FromAny(GameClient, "GetGameList")
CallUpdateBackendGameListItem == Needing({"id"}, FromBody(GameClient, "UpdateGameListItem"))
CallGetGamePlatforms == FromAny(GameClient, "GetGamePlatforms")

(*** Game, api/frontend/game/v1 ***)
RedirectToGameReq == {"game_id", "key", "mobile"}
GetGameCategoriesReq == {"type"}
FrontendGetGameListReq == {"platform", "hot", "is_new", "recommend", "page", "size"}
ToggleFavoriteGameReq == {
    "platform", "game_code", "game_id", "game_name", "vendor", "style", "game_img"}
ToggleFavoriteGameRes == {"success", "message", "is_favorite"}
GetFavoriteGameListReq == {}
GetGameBalanceReq == {"game_id"}
GetGameBalanceRes == {"balance", "success", "message"}
RecallGameBalanceReq == {}
RecallGameBalanceRes == {"success", "message", "recalled_amount", "game_id", "game_name"}
GetUserBetHistoryReq == {"start_time", "end_time", "page", "size"}
GetWashCodeQuotaReq == {"last_bet_id"}
GetWashCodeQuotaRes == {
    "success", "message", "valid_bet_amount", "max_bet_id", "last_rebate_time"}
FrontendGameClient == [
    RedirectToGame |-> Rpc(RedirectToGameReq), GetGameCategories |-> Rpc(GetGameCategoriesReq),
    GetGameList |-> Rpc(FrontendGetGameListReq),
    ToggleFavoriteGame |-> RpcWithVerdict(ToggleFavoriteGameReq, ToggleFavoriteGameRes),
    GetFavoriteGameList |-> Rpc(GetFavoriteGameListReq),
    GetGameBalance |-> RpcWithVerdict(GetGameBalanceReq, GetGameBalanceRes),
    RecallGameBalance |-> RpcWithVerdict(RecallGameBalanceReq, RecallGameBalanceRes),
    GetUserBetHistory |-> Rpc(GetUserBetHistoryReq),
    GetWashCodeQuota |-> RpcWithVerdict(GetWashCodeQuotaReq, GetWashCodeQuotaRes)]
CallRedirectToGame == FromBody(FrontendGameClient, "RedirectToGame")
CallGetGameCategories == FromAny(FrontendGameClient, "GetGameCategories")
CallGetFrontendGameList == FromAny(FrontendGameClient, "GetGameList")
CallToggleFavoriteGame == FromData(FrontendGameClient, "ToggleFavoriteGame")
CallGetFavoriteGameList == Bare(FrontendGameClient, "GetFavoriteGameList")
CallRecallGameBalance == Bare(FrontendGameClient, "RecallGameBalance")
CallGetUserBetHistory == FromAny(FrontendGameClient, "GetUserBetHistory")
CallGetWashCodeQuota == FromAny(FrontendGameClient, "GetWashCodeQuota")

(* initGameRoutes.  A key is the suffix of the path, as its segments, and the method. *)
gameRoutes == {
  Route(<<"games">>, "GET", CallGetGames),
  Route(<<"update-games">>, "POST", CallUpdateGames),
  Route(<<"game-record">>, "POST", CallGetGameRecords),
  Route(<<"redirect-to-game">>, "POST", CallRedirectToGame),
  Route(<<"game-categories">>, "GET", CallGetGameCategories),
  Route(<<"frontend-game-list">>, "GET", CallGetFrontendGameList),
  Route(<<"game", "list">>, "GET", CallGetFrontendGameList),
  Route(<<"favorite-toggle">>, "POST", CallToggleFavoriteGame),
  Route(<<"favorite-list">>, "GET", CallGetFavoriteGameList),
  Route(<<"backend-game-list">>, "GET", CallGetBackendGameList),
  Route(<<"update-game-list-item">>, "POST", CallUpdateBackendGameListItem),
  Route(<<"game-platforms">>, "GET", CallGetGamePlatforms),
  Route(<<"recall-balance">>, "POST", CallRecallGameBalance),
  Route(<<"bet-history">>, "GET", CallGetUserBetHistory),
  Route(<<"wash-code-quota">>, "GET", CallGetWashCodeQuota)}
================================================================================
