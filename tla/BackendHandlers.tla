--------------------------- MODULE BackendHandlers ---------------------------
(* The handlers of grpc_client/backend: the back office of a site (jh_app_service for /api/backend).
   For every gRPC service they call: the request messages, the client, and one handler per
   operation.  At the end, the table that route_handler.go (initBackendRoutes) makes of them. *)
EXTENDS Handlers

(*** Admin, api/backend/admin/v1 ***)
LoginReq == {"username", "password", "code"}
RefreshTokenReq == {}
GetInfoReq == {}
MenusReq == {}
GetAdminListReq == {"username", "status", "page", "size"}
CreateAdminReq == {"username", "password", "nickname", "role", "status"}
UpdateAdminReq == {"id", "password", "nickname", "role", "status"}
DeleteAdminReq == {"id"}
LogoutReq == {}
LogoutRes == {"success", "message"}
ChangePasswordReq == {"old_password", "new_password"}
ChangePasswordRes == {"success", "message"}
GetAdminLogsReq == {"username", "start", "end", "page", "size"}
GenerateGoogle2FAReq == {"id"}
BindGoogle2FAReq == {"id", "secret", "code"}
BindGoogle2FARes == {"success", "message"}
AdminClient == [
    Login |-> Rpc(LoginReq), RefreshToken |-> Rpc(RefreshTokenReq),
    GetInfo |-> Rpc(GetInfoReq), Menus |-> Rpc(MenusReq),
    GetAdminList |-> Rpc(GetAdminListReq), CreateAdmin |-> Rpc(CreateAdminReq),
    UpdateAdmin |-> Rpc(UpdateAdminReq), DeleteAdmin |-> Rpc(DeleteAdminReq),
    Logout |-> RpcWithVerdict(LogoutReq, LogoutRes),
    ChangePassword |-> RpcWithVerdict(ChangePasswordReq, ChangePasswordRes),
    GetAdminLogs |-> Rpc(GetAdminLogsReq), GenerateGoogle2FA |-> Rpc(GenerateGoogle2FAReq),
    BindGoogle2FA |-> RpcWithVerdict(BindGoogle2FAReq, BindGoogle2FARes)]
validateLoginRequest == {"password", "username"}
CallAdminLogin == Needing(validateLoginRequest, FromBody(AdminClient, "Login"))
CallAdminRefreshToken == Bare(AdminClient, "RefreshToken")
CallGenerateGoogle2FA == FromBody(AdminClient, "GenerateGoogle2FA")
CallBindGoogle2FA == Checking(FromBody(AdminClient, "BindGoogle2FA"))
CallGetInfo == Bare(AdminClient, "GetInfo")
CallMenus == Bare(AdminClient, "Menus")
CallGetAdminList == FromAny(AdminClient, "GetAdminList")
validateCreateAdminRequest == {"nickname", "password", "username"}
CallAdminCreate ==
  Numbers({"role", "status"}, Needing(validateCreateAdminRequest, FromBody(AdminClient, "CreateAdmin")))
CallUpdateAdmin ==
  Numbers({"id", "role", "status"}, Needing({"id"}, FromBody(AdminClient, "UpdateAdmin")))
CallDeleteAdmin == Numbers({"id"}, Needing({"id"}, FromBody(AdminClient, "DeleteAdmin")))
CallAdminLogout == Checking(Bare(AdminClient, "Logout"))
CallAdminChangePassword ==
  Checking(Needing({"new_password", "old_password"}, FromBody(AdminClient, "ChangePassword")))
CallGetAdminLogs == FromBody(AdminClient, "GetAdminLogs")

(*** Site, api/backend/site/v1 ***)
GetBasicSettingReq == {"site_id"}
UpdateBasicSettingReq == {
    "site_id", "register_time_interval", "switch_register", "is_close", "close_reason",
    "url_agent_pc", "url_mobile", "web_url", "min_withdraw", "max_withdraw", "mobile_logo",
    "url_service"}
GetInviteBonusConfigReq == {"site_id", "code"}
GetSiteActivityListReq == {"site_id", "activity_id", "code"}
GetSiteActivityParamsReq == {"site_id", "activity_id", "site_code"}
UpdateSiteActivityReq == {
    "site_id", "activity_id", "code", "description", "start_time", "end_time", "fixed_params",
    "status", "sort", "status_set", "sort_set", "param_values"}
UpdateSiteActivityRes == {"success", "message"}
SiteClient == [
    GetBasicSetting |-> Rpc(GetBasicSettingReq),
    UpdateBasicSetting |-> Rpc(UpdateBasicSettingReq),
    GetInviteBonusConfig |-> Rpc(GetInviteBonusConfigReq),
    GetSiteActivityList |-> Rpc(GetSiteActivityListReq),
    GetSiteActivityParams |-> Rpc(GetSiteActivityParamsReq),
    UpdateSiteActivity |-> RpcWithVerdict(UpdateSiteActivityReq, UpdateSiteActivityRes)]
CallGetBasicSetting == FromAny(SiteClient, "GetBasicSetting")
CallUpdateBasicSetting ==
  Taking("url_agent_pc", "url_tg", FromBody(SiteClient, "UpdateBasicSetting"))
CallGetSiteActivityList == FromAny(SiteClient, "GetSiteActivityList")
CallGetSiteActivityParams == Needing({"activity_id"}, FromAny(SiteClient, "GetSiteActivityParams"))
CallUpdateSiteActivity ==
  Silent(Taking("sort_set", "sort",
    Taking("status_set", "status",
    FromBody(SiteClient, "UpdateSiteActivity"))))

(*** Role, api/backend/role/v1 ***)
GetRoleListReq == {"site_id"}
CreateRoleReq == {"site_id", "name"}
CreateRoleRes == {"success", "message"}
UpdateRoleReq == {"id", "site_id", "name"}
UpdateRoleRes == {"success", "message"}
DeleteRoleReq == {"id", "site_id"}
DeleteRoleRes == {"success", "message"}
GetPermissionsReq == {"site_id"}
SavePermissionReq == {"id", "site_id", "permission_list"}
SavePermissionRes == {"success", "message"}
RoleClient == [
    GetRoleList |-> Rpc(GetRoleListReq),
    CreateRole |-> RpcWithVerdict(CreateRoleReq, CreateRoleRes),
    UpdateRole |-> RpcWithVerdict(UpdateRoleReq, UpdateRoleRes),
    DeleteRole |-> RpcWithVerdict(DeleteRoleReq, DeleteRoleRes),
    GetPermissions |-> Rpc(GetPermissionsReq),
    SavePermission |-> RpcWithVerdict(SavePermissionReq, SavePermissionRes)]
CallGetRoleList == FromAny(RoleClient, "GetRoleList")
CallCreateRole ==
  Checking(Numbers({"site_id"}, Needing({"name"}, FromBody(RoleClient, "CreateRole"))))
CallUpdateRole ==
  Checking(Numbers({"id", "site_id"}, Needing({"id", "name"}, FromBody(RoleClient, "UpdateRole"))))
CallDeleteRole ==
  Checking(Numbers({"id", "site_id"}, Needing({"id"}, FromBody(RoleClient, "DeleteRole"))))
CallGetPermissions == FromAny(RoleClient, "GetPermissions")
CallSavePermission ==
  Checking(Numbers({"id", "site_id"}, Needing({"id"}, FromBody(RoleClient, "SavePermission"))))

(*** User, api/backend/user/v1 ***)
GetUserListReq == {
    "grade_id", "status", "username", "realname", "agent_username", "mobile", "page", "size",
    "sort_field", "sort_rule", "card_no", "domain", "start_date", "end_date", "charge"}
UpdateUserReq == {
    "id", "login_password", "pay_password", "grade_id", "agent_id", "realname", "mobile",
    "email", "qq", "birthday", "sex", "focus_level", "balance_status", "status", "remark"}
UpdateUserRes == {"success", "message"}
GetUserBasicInfoReq == {"id"}
IncreasePayTimesReq == {"site_id", "user_id"}
IncreasePayTimesRes == {"success", "message", "old_pay_times", "new_pay_times", "inviter_id"}
GetUserGradesReq == {"site_id"}
SaveUserGradesReq == {"site_id", "data"}
DeleteUserGradesReq == {"site_id", "id"}
GetUserLoginLogsReq == {"username", "ip", "start_time", "end_time", "page", "size"}
UserClient == [
    GetUserList |-> Rpc(GetUserListReq),
    UpdateUser |-> RpcWithVerdict(UpdateUserReq, UpdateUserRes),
    GetUserBasicInfo |-> Rpc(GetUserBasicInfoReq),
    IncreasePayTimes |-> RpcWithVerdict(IncreasePayTimesReq, IncreasePayTimesRes),
    GetUserGrades |-> Rpc(GetUserGradesReq), SaveUserGrades |-> Rpc(SaveUserGradesReq),
    DeleteUserGrades |-> Rpc(DeleteUserGradesReq),
    GetUserLoginLogs |-> Rpc(GetUserLoginLogsReq)]
CallGetUserList == LeavingOut({"realname"}, FromBody(UserClient, "GetUserList"))
CallUpdateUser ==
  Needing({"id"},
    LeavingOut({"realname", "qq", "focus_level", "balance_status"},
    FromBody(UserClient, "UpdateUser")))
CallGetUserBasicInfo == Needing({"id"}, FromBody(UserClient, "GetUserBasicInfo"))
CallGetUserGrades == FromAny(UserClient, "GetUserGrades")
CallSaveUserGrades == Numbers({"data"}, Needing({"data"}, FromBody(UserClient, "SaveUserGrades")))
CallDeleteUserGrades == Needing({"id"}, FromBody(UserClient, "DeleteUserGrades"))
CallGetUserLoginLogs == FromAny(UserClient, "GetUserLoginLogs")

(*** Upload, api/backend/upload/v1 ***)
UploadImageReq == {"file_data", "file_name", "content_type", "file_size", "upload_code"}
UploadClient == [UploadImage |-> Rpc(UploadImageReq)]
CallUploadImage ==
  Needing({"image"}, Taking("upload_code", "code",
    TakingAll({"file_data", "file_name", "content_type", "file_size"}, "image",
    FromFile(UploadClient, "UploadImage"))))

(*** Message, api/backend/message/v1 ***)
GetMessageListReq == {"page", "size"}
CreateMessageReq == {
    "title", "content", "type", "receiver", "grade_id", "level_id", "status", "position",
    "alert_times", "event_code", "amount", "grade_name"}
UpdateMessageReq == {"id", "event_code", "title", "content", "status"}
DeleteMessageReq == {"id"}
GetUserMessagesReq == {"user_id", "page", "size"}
GetUnreadCountReq == {"user_id"}
ReadMessageReq == {"user_id", "message_id"}
SendUserMessageReq == {
    "site_id", "user_id", "event_code", "biz_id", "amount", "grade_name", "vars"}
SendUserMessageRes == {"success", "message"}
MessageClient == [
    GetMessageList |-> Rpc(GetMessageListReq), CreateMessage |-> Rpc(CreateMessageReq),
    UpdateMessage |-> Rpc(UpdateMessageReq), DeleteMessage |-> Rpc(DeleteMessageReq),
    GetUserMessages |-> Rpc(GetUserMessagesReq), GetUnreadCount |-> Rpc(GetUnreadCountReq),
    ReadMessage |-> Rpc(ReadMessageReq),
    SendUserMessage |-> RpcWithVerdict(SendUserMessageReq, SendUserMessageRes)]
CallGetMessageList == FromQuery(MessageClient, "GetMessageList")
CallCreateMessage == LeavingOut({"grade_name"}, FromData(MessageClient, "CreateMessage"))
CallUpdateMessage == FromData(MessageClient, "UpdateMessage")
CallDeleteMessage == FromData(MessageClient, "DeleteMessage")
CallGetUserMessages == Needing({"user_id"}, FromQuery(MessageClient, "GetUserMessages"))
CallGetUnreadCount == FromQuery(MessageClient, "GetUnreadCount")
CallReadMessage == FromData(MessageClient, "ReadMessage")

(*** Ad, api/backend/ad/v1 ***)
GetAdListReq == {"page", "size", "status", "position"}
CreateAdReq == {
    "title", "image", "link", "position", "status", "sort", "start_time", "expired_time"}
UpdateAdReq == {
    "id", "title", "image", "link", "position", "status", "sort", "start_time", "expired_time"}
DeleteAdReq == {"id"}
AdClient == [
    GetAdList |-> Rpc(GetAdListReq), CreateAd |-> Rpc(CreateAdReq),
    UpdateAd |-> Rpc(UpdateAdReq), DeleteAd |-> Rpc(DeleteAdReq)]
CallGetAdList == FromQuery(AdClient, "GetAdList")
validateCreateAdRequest == {
    "title", "image", "position", "status", "sort", "start_time", "expired_time"}
CallCreateAd == NeedingOrFailing(validateCreateAdRequest, FromData(AdClient, "CreateAd"))
CallUpdateAd == FromData(AdClient, "UpdateAd")
CallDeleteAd == FromData(AdClient, "DeleteAd")

(*** Agent, api/backend/agent/v1 ***)
GetAgentListReq == {"page", "size", "status", "name"}
CreateAgentReq == {
    "parent_id", "agent_code", "agent_name", "status", "settle_type", "rate", "remark"}
UpdateAgentReq == {
    "id", "parent_id", "agent_code", "agent_name", "status", "settle_type", "rate", "remark"}
DeleteAgentReq == {"id"}
AgentClient == [
    GetAgentList |-> Rpc(GetAgentListReq), CreateAgent |-> Rpc(CreateAgentReq),
    UpdateAgent |-> Rpc(UpdateAgentReq), DeleteAgent |-> Rpc(DeleteAgentReq)]
CallGetAgentList == FromQuery(AgentClient, "GetAgentList")
CallCreateAgent == FromData(AgentClient, "CreateAgent")
CallUpdateAgent == FromData(AgentClient, "UpdateAgent")
CallDeleteAgent == FromData(AgentClient, "DeleteAgent")
CallGetAgentListOptions ==
  LeavingOut({"page", "size", "status", "name"}, Bare(AgentClient, "GetAgentList"))

(*** AgentDomain, api/backend/agent_domain/v1 ***)
GetAgentDomainListReq == {"page", "size", "agent_id", "status", "domain"}
CreateAgentDomainReq == {"agent_id", "domain", "status"}
UpdateAgentDomainReq == {"id", "agent_id", "domain", "status"}
DeleteAgentDomainReq == {"id"}
AgentDomainClient == [
    GetAgentDomainList |-> Rpc(GetAgentDomainListReq),
    CreateAgentDomain |-> Rpc(CreateAgentDomainReq),
    UpdateAgentDomain |-> Rpc(UpdateAgentDomainReq),
    DeleteAgentDomain |-> Rpc(DeleteAgentDomainReq)]
CallGetAgentDomainList == FromQuery(AgentDomainClient, "GetAgentDomainList")
CallCreateAgentDomain == FromData(AgentDomainClient, "CreateAgentDomain")
CallUpdateAgentDomain == FromData(AgentDomainClient, "UpdateAgentDomain")
CallDeleteAgentDomain == FromData(AgentDomainClient, "DeleteAgentDomain")

(*** AgentSettlement, api/backend/agent_settlement/v1 ***)
GetAgentSettlementDailyListReq == {
    "page", "size", "agent_id", "settle_status", "start_date", "end_date"}
CalcAgentSettlementDailyReq == {"start_date", "end_date", "agent_id"}
SettleAgentSettlementDailyReq == {"id"}
SettleAgentSettlementBatchReq == {"start_date", "end_date", "agent_id"}
AgentSettlementClient == [
    GetAgentSettlementDailyList |-> Rpc(GetAgentSettlementDailyListReq),
    CalcAgentSettlementDaily |-> Rpc(CalcAgentSettlementDailyReq),
    SettleAgentSettlementDaily |-> Rpc(SettleAgentSettlementDailyReq),
    SettleAgentSettlementBatch |-> Rpc(SettleAgentSettlementBatchReq)]
CallGetAgentSettlementDailyList == FromQuery(AgentSettlementClient, "GetAgentSettlementDailyList")
CallCalcAgentSettlementDaily == FromData(AgentSettlementClient, "CalcAgentSettlementDaily")
CallSettleAgentSettlementDaily == FromData(AgentSettlementClient, "SettleAgentSettlementDaily")
CallSettleAgentSettlementBatch == FromData(AgentSettlementClient, "SettleAgentSettlementBatch")

(*** Notice, api/backend/notice/v1 ***)
GetNoticeListReq == {"page", "size", "status", "type"}
CreateNoticeReq == {
    "title", "content", "type", "status", "sort", "is_top", "start_time", "expired_time",
    "url"}
UpdateNoticeReq == {
    "id", "title", "content", "type", "status", "sort", "is_top", "start_time", "expired_time",
    "url"}
DeleteNoticeReq == {"id"}
NoticeClient == [
    GetNoticeList |-> Rpc(GetNoticeListReq), CreateNotice |-> Rpc(CreateNoticeReq),
    UpdateNotice |-> Rpc(UpdateNoticeReq), DeleteNotice |-> Rpc(DeleteNoticeReq)]
CallGetNoticeList == FromQuery(NoticeClient, "GetNoticeList")
CallCreateNotice == FromData(NoticeClient, "CreateNotice")
CallUpdateNotice == FromData(NoticeClient, "UpdateNotice")
CallDeleteNotice == FromData(NoticeClient, "DeleteNotice")

(*** Option, api/backend/option/v1 ***)
UserGradeListRequest == {}
AdminRoleListRequest == {}
OptionClient == [
    GetUserGradeList |-> Rpc(UserGradeListRequest),
    GetAdminRoleList |-> Rpc(AdminRoleListRequest)]
CallGetUserGradeOptions == Bare(OptionClient, "GetUserGradeList")
CallGetAdminRoleOptions == Bare(OptionClient, "GetAdminRoleList")

(* initBackendRoutes.  A key is the suffix of the path, as its segments, and the method. *)
backendRoutes == {
  Route(<<"login">>, "POST", CallAdminLogin),
  Route(<<"refresh-token">>, "GET", CallAdminRefreshToken),
  Route(<<"get-info">>, "GET", CallGetInfo),
  Route(<<"menus">>, "GET", CallMenus),
  Route(<<"admins">>, "GET", CallGetAdminList),
  Route(<<"create-admin">>, "POST", CallAdminCreate),
  Route(<<"update-admin">>, "POST", CallUpdateAdmin),
  Route(<<"generate-google2fa">>, "GET", CallGenerateGoogle2FA),
  Route(<<"bind-google2fa">>, "POST", CallBindGoogle2FA),
  Route(<<"delete-admin">>, "POST", CallDeleteAdmin),
  Route(<<"logout">>, "POST", CallAdminLogout),
  Route(<<"change-password">>, "POST", CallAdminChangePassword),
  Route(<<"basic-setting">>, "GET", CallGetBasicSetting),
  Route(<<"update-basic-setting">>, "POST", CallUpdateBasicSetting),
  Route(<<"site-activity-list">>, "GET", CallGetSiteActivityList),
  Route(<<"site-activity-params">>, "GET", CallGetSiteActivityParams),
  Route(<<"update-site-activity">>, "POST", CallUpdateSiteActivity),
  Route(<<"roles">>, "GET", CallGetRoleList),
  Route(<<"create-role">>, "POST", CallCreateRole),
  Route(<<"update-role">>, "POST", CallUpdateRole),
  Route(<<"delete-role">>, "POST", CallDeleteRole),
  Route(<<"permissions">>, "GET", CallGetPermissions),
  Route(<<"save-permission">>, "POST", CallSavePermission),
  Route(<<"admin-logs">>, "GET", CallGetAdminLogs),
  Route(<<"users">>, "GET", CallGetUserList),
  Route(<<"update-user">>, "POST", CallUpdateUser),
  Route(<<"user-basic-info">>, "GET", CallGetUserBasicInfo),
  Route(<<"user-grades">>, "GET", CallGetUserGrades),
  Route(<<"save-user-grades">>, "POST", CallSaveUserGrades),
  Route(<<"delete-user-grades">>, "POST", CallDeleteUserGrades),
  Route(<<"user-login-logs">>, "GET", CallGetUserLoginLogs),
  Route(<<"upload-image">>, "POST", CallUploadImage),
  Route(<<"messages">>, "GET", CallGetMessageList),
  Route(<<"create-message">>, "POST", CallCreateMessage),
  Route(<<"update-message">>, "POST", CallUpdateMessage),
  Route(<<"delete-message">>, "POST", CallDeleteMessage),
  Route(<<"user-messages">>, "GET", CallGetUserMessages),
  Route(<<"unread-count">>, "GET", CallGetUnreadCount),
  Route(<<"read-message">>, "POST", CallReadMessage),
  Route(<<"ads">>, "GET", CallGetAdList),
  Route(<<"create-ad">>, "POST", CallCreateAd),
  Route(<<"update-ad">>, "POST", CallUpdateAd),
  Route(<<"delete-ad">>, "POST", CallDeleteAd),
  Route(<<"agents">>, "GET", CallGetAgentList),
  Route(<<"create-agent">>, "POST", CallCreateAgent),
  Route(<<"update-agent">>, "POST", CallUpdateAgent),
  Route(<<"delete-agent">>, "POST", CallDeleteAgent),
  Route(<<"agent-domains">>, "GET", CallGetAgentDomainList),
  Route(<<"create-agent-domain">>, "POST", CallCreateAgentDomain),
  Route(<<"update-agent-domain">>, "POST", CallUpdateAgentDomain),
  Route(<<"delete-agent-domain">>, "POST", CallDeleteAgentDomain),
  Route(<<"options-agent">>, "GET", CallGetAgentListOptions),
  Route(<<"agent-settlement-daily">>, "GET", CallGetAgentSettlementDailyList),
  Route(<<"calc-agent-settlement-daily">>, "POST", CallCalcAgentSettlementDaily),
  Route(<<"settle-agent-settlement-daily">>, "POST", CallSettleAgentSettlementDaily),
  Route(<<"settle-agent-settlement-batch">>, "POST", CallSettleAgentSettlementBatch),
  Route(<<"notices">>, "GET", CallGetNoticeList),
  Route(<<"create-notice">>, "POST", CallCreateNotice),
  Route(<<"update-notice">>, "POST", CallUpdateNotice),
  Route(<<"delete-notice">>, "POST", CallDeleteNotice),
  Route(<<"options-user-grade">>, "GET", CallGetUserGradeOptions),
  Route(<<"options-admin-role">>, "GET", CallGetAdminRoleOptions)}
================================================================================
