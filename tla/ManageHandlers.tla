--------------------------- MODULE ManageHandlers ---------------------------
(* The handlers of grpc_client/manage: the administration of all sites (jh_manage_service).
   For every gRPC service they call: the request messages, the client, and one handler per
   operation.  At the end, the table that route_handler.go (initManageRoutes) makes of them. *)
EXTENDS Handlers

(*** Admin, api/manage/admin/v1 ***)
ManageLoginReq == {"username", "password", "code"}
ManageRefreshTokenReq == {}
ManageGetInfoReq == {}
ManageLogoutReq == {}
ManageLogoutRes == {"success", "message"}
ManageMenusReq == {}
ManageGetAdminListReq == {"username", "status", "page", "size"}
ManageCreateAdminReq == {"username", "password", "nickname", "role", "status"}
ManageUpdateAdminReq == {"id", "password", "nickname", "role", "status"}
ManageDeleteAdminReq == {"id"}
ManageGetAdminRoleOptionsReq == {}
ManageGetRoleListReq == {"name", "status", "page", "size"}
ManageCreateRoleReq == {"name", "permissions", "status"}
ManageUpdateRoleReq == {"id", "name", "permissions", "status"}
ManageDeleteRoleReq == {"id"}
ManageGenerateGoogle2FAReq == {"id"}
ManageBindGoogle2FAReq == {"id", "secret", "code"}
ManageBindGoogle2FARes == {"success", "message"}
AdminClient == [
    Login |-> Rpc(ManageLoginReq), RefreshToken |-> Rpc(ManageRefreshTokenReq),
    GetInfo |-> Rpc(ManageGetInfoReq),
    Logout |-> RpcWithVerdict(ManageLogoutReq, ManageLogoutRes), Menus |-> Rpc(ManageMenusReq),
    GetAdminList |-> Rpc(ManageGetAdminListReq), CreateAdmin |-> Rpc(ManageCreateAdminReq),
    UpdateAdmin |-> Rpc(ManageUpdateAdminReq), DeleteAdmin |-> Rpc(ManageDeleteAdminReq),
    GetAdminRoleOptions |-> Rpc(ManageGetAdminRoleOptionsReq),
    GetRoleList |-> Rpc(ManageGetRoleListReq), CreateRole |-> Rpc(ManageCreateRoleReq),
    UpdateRole |-> Rpc(ManageUpdateRoleReq), DeleteRole |-> Rpc(ManageDeleteRoleReq),
    GenerateGoogle2FA |-> Rpc(ManageGenerateGoogle2FAReq),
    BindGoogle2FA |-> RpcWithVerdict(ManageBindGoogle2FAReq, ManageBindGoogle2FARes)]
CallManageAdminLogin == Needing({"password", "username"}, FromBody(AdminClient, "Login"))
CallManageAdminRefreshToken == Bare(AdminClient, "RefreshToken")
CallManageAdminGetInfo == Bare(AdminClient, "GetInfo")
CallManageAdminLogout == Bare(AdminClient, "Logout")
CallManageAdminMenus == Bare(AdminClient, "Menus")
CallManageAdminList == FromAny(AdminClient, "GetAdminList")
CallManageCreateAdmin == FromBody(AdminClient, "CreateAdmin")
CallManageUpdateAdmin == Taking("role", "role_id", FromBody(AdminClient, "UpdateAdmin"))
CallManageDeleteAdmin == FromBody(AdminClient, "DeleteAdmin")
CallManageAdminRoleOptions == Bare(AdminClient, "GetAdminRoleOptions")
CallManageGenerateGoogle2FA == FromBody(AdminClient, "GenerateGoogle2FA")
CallManageBindGoogle2FA == Checking(FromBody(AdminClient, "BindGoogle2FA"))
CallManageRoleList == FromAny(AdminClient, "GetRoleList")
CallManageCreateRole == FromBody(AdminClient, "CreateRole")
CallManageUpdateRole == FromBody(AdminClient, "UpdateRole")
CallManageDeleteRole == FromBody(AdminClient, "DeleteRole")

(*** Customer, api/manage/customer/v1 ***)
GetCustomerListReq == {}
GetCustomerDetailReq == {"id"}
UpdateCustomerReq == {
    "id", "name", "timezone", "currency", "status", "kv_config", "db_link_site",
    "db_link_balance", "db_link_game", "is_sync", "currency_code", "currency_symbol",
    "symbol_position", "decimals", "thousand_sep", "decimal_sep", "rounding_mode", "locale",
    "default_lang", "supported_langs", "phone_prefix"}
DeleteCustomerReq == {"id"}
SyncCustomerReq == {"data"}
PublishCustomerReq == {"id"}
PublishCustomerRes == {"success", "message"}
RollbackCustomerReq == {"id", "target_version"}
RollbackCustomerRes == {"success", "message"}
GetCustomerVersionHistoryReq == {"site_code", "page", "size"}
CustomerClient == [
    GetCustomerList |-> Rpc(GetCustomerListReq),
    GetCustomerDetail |-> Rpc(GetCustomerDetailReq), UpdateCustomer |-> Rpc(UpdateCustomerReq),
    DeleteCustomer |-> Rpc(DeleteCustomerReq), SyncCustomer |-> Rpc(SyncCustomerReq),
    PublishCustomer |-> RpcWithVerdict(PublishCustomerReq, PublishCustomerRes),
    RollbackCustomer |-> RpcWithVerdict(RollbackCustomerReq, RollbackCustomerRes),
    GetCustomerVersionHistory |-> Rpc(GetCustomerVersionHistoryReq)]
CallGetCustomerList == Bare(CustomerClient, "GetCustomerList")
CallGetCustomerDetail == Needing({"id"}, FromAny(CustomerClient, "GetCustomerDetail"))
CallUpdateCustomer == Needing({"id"}, FromBody(CustomerClient, "UpdateCustomer"))
CallDeleteCustomer == Needing({"id"}, FromBody(CustomerClient, "DeleteCustomer"))
CallSyncCustomer == Numbers({"data"}, Needing({"data"}, FromBody(CustomerClient, "SyncCustomer")))
CallPublishCustomer == Needing({"id"}, FromBody(CustomerClient, "PublishCustomer"))
CallRollbackCustomer ==
  Needing({"id", "target_version"}, FromBody(CustomerClient, "RollbackCustomer"))
CallGetCustomerVersionHistory ==
  Needing({"site_code"}, FromBody(CustomerClient, "GetCustomerVersionHistory"))

(*** ManageGame, api/manage/game/v1 ***)
GetGameListReq == {"type", "status", "platform", "page", "size"}
GetGameDetailReq == {"id"}
CreateGameReq == {
    "type", "name", "platform", "code", "image_code", "status", "db_name", "remark", "api_id",
    "api_key", "api_url"}
UpdateGameReq == {
    "id", "type", "name", "platform", "code", "image_code", "status", "db_name", "remark",
    "api_id", "api_key", "api_url"}
DeleteGameReq == {"id"}
SupplementBetRecordsReq == {"platform", "start_time", "end_time", "site_codes"}
SupplementBetRecordsRes == {"success", "message", "total_records", "output"}
GetManageGameListReq == {
    "site_id", "platform", "vendor", "name", "code", "style", "hot", "recommend", "is_new",
    "status", "page", "size"}
UpdateGameListItemReq == {
    "site_id", "id", "alias_name", "hot", "recommend", "is_new", "status", "sort"}
UpdateGameListItemRes == {"success", "message"}
ManageGetSyncTasksReq == {
    "site_id", "site_code", "platform", "task_type", "status", "page", "size"}
ManageGameClient == [
    GetGameList |-> Rpc(GetGameListReq), GetGameDetail |-> Rpc(GetGameDetailReq),
    CreateGame |-> Rpc(CreateGameReq), UpdateGame |-> Rpc(UpdateGameReq),
    DeleteGame |-> Rpc(DeleteGameReq),
    SupplementBetRecords |->
        RpcWithVerdict(SupplementBetRecordsReq, SupplementBetRecordsRes),
    GetManageGameList |-> Rpc(GetManageGameListReq),
    UpdateGameListItem |-> RpcWithVerdict(UpdateGameListItemReq, UpdateGameListItemRes),
    ManageGetSyncTasks |-> Rpc(ManageGetSyncTasksReq)]
CallGetGameList == FromAny(ManageGameClient, "GetGameList")
CallGetGameDetail == Needing({"id"}, FromAny(ManageGameClient, "GetGameDetail"))
CallCreateGame == FromAny(ManageGameClient, "CreateGame")
CallUpdateGame == FromAny(ManageGameClient, "UpdateGame")
CallDeleteGame == FromAny(ManageGameClient, "DeleteGame")
CallSupplementBetRecords ==
  Needing({"end_time", "platform", "start_time"}, FromBody(ManageGameClient, "SupplementBetRecords"))
CallManageGetSyncTasks == FromAny(ManageGameClient, "ManageGetSyncTasks")

(*** ManageSiteGame, api/manage/site_game/v1 ***)
GetSiteGameListReq == {"site_code"}
UpdateSiteGameStatusReq == {"id", "status"}
BindSiteGameReq == {"site_code", "game_id"}
UnbindSiteGameReq == {"id"}
ManageSiteGameClient == [
    GetSiteGameList |-> Rpc(GetSiteGameListReq),
    UpdateSiteGameStatus |-> Rpc(UpdateSiteGameStatusReq),
    BindSiteGame |-> Rpc(BindSiteGameReq), UnbindSiteGame |-> Rpc(UnbindSiteGameReq)]
CallGetSiteGameList == Needing({"site_code"}, FromAny(ManageSiteGameClient, "GetSiteGameList"))
CallUpdateSiteGameStatus == FromAny(ManageSiteGameClient, "UpdateSiteGameStatus")
CallBindSiteGame == FromAny(ManageSiteGameClient, "BindSiteGame")
CallUnbindSiteGame == FromAny(ManageSiteGameClient, "UnbindSiteGame")

(*** ManageOption, api/manage/option/v1 ***)
GetDomainTypeOptionsReq == {}
GetSiteOptionsReq == {}
CreateSiteDomainReq == {"site_code", "domain", "domain_type", "status"}
UpdateSiteDomainReq == {"id", "site_code", "domain", "domain_type", "status"}
DeleteSiteDomainReq == {"id"}
GetSiteDomainListReq == {"page", "size", "site_code", "domain_type", "status"}
ManageOptionClient == [
    GetDomainTypeOptions |-> Rpc(GetDomainTypeOptionsReq),
    GetSiteOptions |-> Rpc(GetSiteOptionsReq), CreateSiteDomain |-> Rpc(CreateSiteDomainReq),
    UpdateSiteDomain |-> Rpc(UpdateSiteDomainReq),
    DeleteSiteDomain |-> Rpc(DeleteSiteDomainReq),
    GetSiteDomainList |-> Rpc(GetSiteDomainListReq)]
CallGetDomainTypeOptions == Bare(ManageOptionClient, "GetDomainTypeOptions")
CallGetSiteOptions == Bare(ManageOptionClient, "GetSiteOptions")
CallGetSiteDomainList == FromAny(ManageOptionClient, "GetSiteDomainList")
CallCreateSiteDomain == FromBody(ManageOptionClient, "CreateSiteDomain")
CallUpdateSiteDomain == FromBody(ManageOptionClient, "UpdateSiteDomain")
CallDeleteSiteDomain == FromBody(ManageOptionClient, "DeleteSiteDomain")

(*** ManageActivity, api/manage/activity/v1 ***)
GetActivityListReq == {"code", "name", "activity_type", "status", "page", "size"}
GetActivityDetailReq == {"id"}
CreateActivityReq == {
    "name", "code", "activity_type", "description", "start_time", "end_time", "fixed_params",
    "status", "uri", "table"}
UpdateActivityReq == {
    "id", "name", "code", "activity_type", "description", "start_time", "end_time",
    "fixed_params", "status", "uri", "table"}
DeleteActivityReq == {"id"}
ManageActivityClient == [
    GetActivityList |-> Rpc(GetActivityListReq),
    GetActivityDetail |-> Rpc(GetActivityDetailReq), CreateActivity |-> Rpc(CreateActivityReq),
    UpdateActivity |-> Rpc(UpdateActivityReq), DeleteActivity |-> Rpc(DeleteActivityReq)]
CallGetActivityList == FromAny(ManageActivityClient, "GetActivityList")
CallGetActivityDetail == Needing({"id"}, FromAny(ManageActivityClient, "GetActivityDetail"))
CallCreateActivity == FromBody(ManageActivityClient, "CreateActivity")
CallUpdateActivity == FromBody(ManageActivityClient, "UpdateActivity")
CallDeleteActivity == Needing({"id"}, FromBody(ManageActivityClient, "DeleteActivity"))

(*** ManagePayment, api/manage/payment/v1 ***)
GetPaymentListReq == {"gateway", "status", "name", "page", "size"}
GetPaymentDetailReq == {"id"}
CreatePaymentReq == {
    "name", "code", "gateway", "api_url", "merchant_no", "md5_key", "each_min", "each_max",
    "sort", "money_list", "is_input", "remark", "logo", "status"}
UpdatePaymentReq == {
    "id", "name", "code", "gateway", "api_url", "merchant_no", "md5_key", "each_min",
    "each_max", "sort", "money_list", "is_input", "remark", "logo", "status"}
DeletePaymentReq == {"id"}
ManagePaymentClient == [
    GetPaymentList |-> Rpc(GetPaymentListReq), GetPaymentDetail |-> Rpc(GetPaymentDetailReq),
    CreatePayment |-> Rpc(CreatePaymentReq), UpdatePayment |-> Rpc(UpdatePaymentReq),
    DeletePayment |-> Rpc(DeletePaymentReq)]
CallGetPaymentList == FromAny(ManagePaymentClient, "GetPaymentList")
CallGetPaymentDetail == Needing({"id"}, FromAny(ManagePaymentClient, "GetPaymentDetail"))
CallCreatePayment == FromBody(ManagePaymentClient, "CreatePayment")
CallUpdatePayment == FromBody(ManagePaymentClient, "UpdatePayment")
CallDeletePayment == Needing({"id"}, FromBody(ManagePaymentClient, "DeletePayment"))

(*** ManageSitePayment, api/manage/site_payment/v1 ***)
GetSitePaymentListReq == {"site_code"}
UpdateSitePaymentStatusReq == {"id", "status"}
BindSitePaymentReq == {"site_code", "payment_id"}
UnbindSitePaymentReq == {"id"}
ManageSitePaymentClient == [
    GetSitePaymentList |-> Rpc(GetSitePaymentListReq),
    UpdateSitePaymentStatus |-> Rpc(UpdateSitePaymentStatusReq),
    BindSitePayment |-> Rpc(BindSitePaymentReq),
    UnbindSitePayment |-> Rpc(UnbindSitePaymentReq)]
CallGetSitePaymentList ==
  Needing({"site_code"}, FromAny(ManageSitePaymentClient, "GetSitePaymentList"))
CallUpdateSitePaymentStatus == FromBody(ManageSitePaymentClient, "UpdateSitePaymentStatus")
CallBindSitePayment == FromBody(ManageSitePaymentClient, "BindSitePayment")
CallUnbindSitePayment == FromBody(ManageSitePaymentClient, "UnbindSitePayment")

(*** ManageWithdraw, api/manage/withdraw/v1 ***)
GetWithdrawListReq == {"gateway", "status", "name", "page", "size"}
GetWithdrawDetailReq == {"id"}
CreateWithdrawReq == {
    "name", "code", "gateway", "api_url", "merchant_no", "md5_key", "each_min", "each_max",
    "sort", "money_list", "is_input", "remark", "logo", "status"}
UpdateWithdrawReq == {
    "id", "name", "code", "gateway", "api_url", "merchant_no", "md5_key", "each_min",
    "each_max", "sort", "money_list", "is_input", "remark", "logo", "status"}
DeleteWithdrawReq == {"id"}
ManageWithdrawClient == [
    GetWithdrawList |-> Rpc(GetWithdrawListReq),
    GetWithdrawDetail |-> Rpc(GetWithdrawDetailReq), CreateWithdraw |-> Rpc(CreateWithdrawReq),
    UpdateWithdraw |-> Rpc(UpdateWithdrawReq), DeleteWithdraw |-> Rpc(DeleteWithdrawReq)]
CallGetWithdrawList == FromAny(ManageWithdrawClient, "GetWithdrawList")
CallGetWithdrawDetail == Needing({"id"}, FromAny(ManageWithdrawClient, "GetWithdrawDetail"))
CallCreateWithdraw == FromBody(ManageWithdrawClient, "CreateWithdraw")
CallUpdateWithdraw == FromBody(ManageWithdrawClient, "UpdateWithdraw")
CallDeleteWithdraw == Needing({"id"}, FromBody(ManageWithdrawClient, "DeleteWithdraw"))

(*** ManageSiteActivity, api/manage/site_activity/v1 ***)
GetSiteActivityListReq == {"site_code"}
UpdateSiteActivityStatusReq == {"id", "status"}
BindSiteActivityReq == {"site_code", "activity_id"}
UnbindSiteActivityReq == {"id"}
ManageSiteActivityClient == [
    GetSiteActivityList |-> Rpc(GetSiteActivityListReq),
    UpdateSiteActivityStatus |-> Rpc(UpdateSiteActivityStatusReq),
    BindSiteActivity |-> Rpc(BindSiteActivityReq),
    UnbindSiteActivity |-> Rpc(UnbindSiteActivityReq)]
CallGetSiteActivityList ==
  Needing({"site_code"}, FromAny(ManageSiteActivityClient, "GetSiteActivityList"))
CallUpdateSiteActivityStatus == FromBody(ManageSiteActivityClient, "UpdateSiteActivityStatus")
CallBindSiteActivity == FromBody(ManageSiteActivityClient, "BindSiteActivity")
CallUnbindSiteActivity == Needing({"id"}, FromBody(ManageSiteActivityClient, "UnbindSiteActivity"))

(*** ManageSiteWithdraw, api/manage/site_withdraw/v1 ***)
GetSiteWithdrawListReq == {"site_code"}
UpdateSiteWithdrawStatusReq == {"id", "status"}
BindSiteWithdrawReq == {"site_code", "withdraw_id"}
UnbindSiteWithdrawReq == {"id"}
ManageSiteWithdrawClient == [
    GetSiteWithdrawList |-> Rpc(GetSiteWithdrawListReq),
    UpdateSiteWithdrawStatus |-> Rpc(UpdateSiteWithdrawStatusReq),
    BindSiteWithdraw |-> Rpc(BindSiteWithdrawReq),
    UnbindSiteWithdraw |-> Rpc(UnbindSiteWithdrawReq)]
CallGetSiteWithdrawList ==
  Needing({"site_code"}, FromAny(ManageSiteWithdrawClient, "GetSiteWithdrawList"))
CallUpdateSiteWithdrawStatus == FromBody(ManageSiteWithdrawClient, "UpdateSiteWithdrawStatus")
CallBindSiteWithdraw == FromBody(ManageSiteWithdrawClient, "BindSiteWithdraw")
CallUnbindSiteWithdraw == FromBody(ManageSiteWithdrawClient, "UnbindSiteWithdraw")

(* initManageRoutes.  A key is the suffix of the path, as its segments, and the method. *)
manageRoutes == {
  Route(<<"admin", "login">>, "POST", CallManageAdminLogin),
  Route(<<"admin", "refresh-token">>, "GET", CallManageAdminRefreshToken),
  Route(<<"admin", "get-info">>, "GET", CallManageAdminGetInfo),
  Route(<<"admin", "logout">>, "POST", CallManageAdminLogout),
  Route(<<"admin", "menus">>, "GET", CallManageAdminMenus),
  Route(<<"admin", "list">>, "GET", CallManageAdminList),
  Route(<<"admin", "create">>, "POST", CallManageCreateAdmin),
  Route(<<"admin", "update">>, "POST", CallManageUpdateAdmin),
  Route(<<"admin", "delete">>, "POST", CallManageDeleteAdmin),
  Route(<<"admin", "role-options">>, "GET", CallManageAdminRoleOptions),
  Route(<<"admin", "generate-google2fa">>, "POST", CallManageGenerateGoogle2FA),
  Route(<<"admin", "bind-google2fa">>, "POST", CallManageBindGoogle2FA),
  Route(<<"role", "list">>, "GET", CallManageRoleList),
  Route(<<"role", "create">>, "POST", CallManageCreateRole),
  Route(<<"role", "update">>, "POST", CallManageUpdateRole),
  Route(<<"role", "delete">>, "POST", CallManageDeleteRole),
  Route(<<"customer", "list">>, "GET", CallGetCustomerList),
  Route(<<"customer", "detail">>, "GET", CallGetCustomerDetail),
  Route(<<"customer", "update">>, "POST", CallUpdateCustomer),
  Route(<<"customer", "delete">>, "POST", CallDeleteCustomer),
  Route(<<"customer", "sync">>, "POST", CallSyncCustomer),
  Route(<<"customer", "publish">>, "POST", CallPublishCustomer),
  Route(<<"customer", "rollback">>, "POST", CallRollbackCustomer),
  Route(<<"customer", "version-history">>, "GET", CallGetCustomerVersionHistory),
  Route(<<"game", "list">>, "GET", CallGetGameList),
  Route(<<"game", "detail">>, "GET", CallGetGameDetail),
  Route(<<"game", "create">>, "POST", CallCreateGame),
  Route(<<"game", "update">>, "POST", CallUpdateGame),
  Route(<<"game", "delete">>, "POST", CallDeleteGame),
  Route(<<"game", "supplement-bet-records">>, "POST", CallSupplementBetRecords),
  Route(<<"game", "sync-tasks">>, "GET", CallManageGetSyncTasks),
  Route(<<"activity", "list">>, "GET", CallGetActivityList),
  Route(<<"activity", "detail">>, "GET", CallGetActivityDetail),
  Route(<<"activity", "create">>, "POST", CallCreateActivity),
  Route(<<"activity", "update">>, "POST", CallUpdateActivity),
  Route(<<"activity", "delete">>, "POST", CallDeleteActivity),
  Route(<<"payment", "list">>, "GET", CallGetPaymentList),
  Route(<<"payment", "detail">>, "GET", CallGetPaymentDetail),
  Route(<<"payment", "create">>, "POST", CallCreatePayment),
  Route(<<"payment", "update">>, "POST", CallUpdatePayment),
  Route(<<"payment", "delete">>, "POST", CallDeletePayment),
  Route(<<"withdraw", "list">>, "GET", CallGetWithdrawList),
  Route(<<"withdraw", "detail">>, "GET", CallGetWithdrawDetail),
  Route(<<"withdraw", "create">>, "POST", CallCreateWithdraw),
  Route(<<"withdraw", "update">>, "POST", CallUpdateWithdraw),
  Route(<<"withdraw", "delete">>, "POST", CallDeleteWithdraw),
  Route(<<"site_game", "list">>, "GET", CallGetSiteGameList),
  Route(<<"site_game", "update_status">>, "POST", CallUpdateSiteGameStatus),
  Route(<<"site_game", "bind">>, "POST", CallBindSiteGame),
  Route(<<"site_game", "unbind">>, "POST", CallUnbindSiteGame),
  Route(<<"site_payment", "list">>, "GET", CallGetSitePaymentList),
  Route(<<"site_payment", "update_status">>, "POST", CallUpdateSitePaymentStatus),
  Route(<<"site_payment", "bind">>, "POST", CallBindSitePayment),
  Route(<<"site_payment", "unbind">>, "POST", CallUnbindSitePayment),
  Route(<<"site_activity", "list">>, "GET", CallGetSiteActivityList),
  Route(<<"site_activity", "update_status">>, "POST", CallUpdateSiteActivityStatus),
  Route(<<"site_activity", "bind">>, "POST", CallBindSiteActivity),
  Route(<<"site_activity", "unbind">>, "POST", CallUnbindSiteActivity),
  Route(<<"site_withdraw", "list">>, "GET", CallGetSiteWithdrawList),
  Route(<<"site_withdraw", "update_status">>, "POST", CallUpdateSiteWithdrawStatus),
  Route(<<"site_withdraw", "bind">>, "POST", CallBindSiteWithdraw),
  Route(<<"site_withdraw", "unbind">>, "POST", CallUnbindSiteWithdraw),
  Route(<<"options", "domain-type">>, "GET", CallGetDomainTypeOptions),
  Route(<<"options", "site">>, "GET", CallGetSiteOptions),
  Route(<<"site-domain", "list">>, "GET", CallGetSiteDomainList),
  Route(<<"site-domain", "create">>, "POST", CallCreateSiteDomain),
  Route(<<"site-domain", "update">>, "POST", CallUpdateSiteDomain),
  Route(<<"site-domain", "delete">>, "POST", CallDeleteSiteDomain)}
================================================================================
