--------------------------- MODULE FrontendHandlers ---------------------------
(* The handlers of grpc_client/frontend: the players' site (jh_app_service for /api/frontend).
   For every gRPC service they call: the request messages, the client, and one handler per
   operation.  At the end, the table that route_handler.go (initFrontendRoutes) makes of them. *)
EXTENDS Handlers

(*** Public, api/frontend/public/v1 ***)
QuickRegisterReq == {"time", "domain"}
RegisterReq == {
    "username", "password", "mobile", "code", "time", "phone_code", "pay_password", "realname",
    "email", "birthday", "agent_salt", "domain", "invite_code"}
LoginReq == {"username", "password", "code", "time"}
GenerateCaptchaReq == {"time"}
RefreshTokenReq == {"refresh_token"}
GetSiteSettingReq == {}
GetNoticeListReq == {"limit"}
GetAdListReq == {"mobile"}
GetSiteActivityListReq == {"site_id", "activity_id", "code"}
PublicClient == [
    QuickRegister |-> Rpc(QuickRegisterReq), Register |-> Rpc(RegisterReq),
    Login |-> Rpc(LoginReq), GenerateCaptcha |-> Rpc(GenerateCaptchaReq),
    RefreshToken |-> Rpc(RefreshTokenReq), GetSiteSetting |-> Rpc(GetSiteSettingReq),
    GetAppNoticeList |-> Rpc(GetNoticeListReq), GetAppAdList |-> Rpc(GetAdListReq),
    GetSiteActivityList |-> Rpc(GetSiteActivityListReq)]
CallQuickRegister == Needing({"time"}, FromBody(PublicClient, "QuickRegister"))
CallUserRegister == Needing({"password", "time", "username"}, FromBody(PublicClient, "Register"))
CallUserLogin == Needing({"password", "username"}, FromBody(PublicClient, "Login"))
CallGenerateCaptcha == Needing({"time"}, FromAny(PublicClient, "GenerateCaptcha"))
CallRefreshToken == Needing({"refresh_token"}, FromBody(PublicClient, "RefreshToken"))
CallGetAppNoticeList == FromAny(PublicClient, "GetAppNoticeList")
CallGetAppAdList == FromAny(PublicClient, "GetAppAdList")
CallGetSiteSetting == Bare(PublicClient, "GetSiteSetting")
CallGetSiteActivityList == FromAny(PublicClient, "GetSiteActivityList")

(*** User, api/frontend/user/v1 ***)
GetUserInfoReq == {}
LogoutReq == {}
BindEmailReq == {"email"}
BindMobileReq == {"mobile"}
ChangeLoginPasswordReq == {"old_password", "new_password"}
BindLoginPasswordReq == {"new_password"}
GetGradeListReq == {}
SetPayPasswordReq == {"pay_password"}
VerifyPayPasswordReq == {"pay_password"}
ChangePayPasswordReq == {"old_pay_password", "new_pay_password"}
GetInviteInfoReq == {}
GetInviteListReq == {"page", "page_size"}
GetUserMessagesReq == {"page", "size"}
GetUnreadCountReq == {}
ReadMessageReq == {"message_id"}
UserClient == [
    GetUserInfo |-> Rpc(GetUserInfoReq), Logout |-> Rpc(LogoutReq),
    BindEmail |-> Rpc(BindEmailReq), BindMobile |-> Rpc(BindMobileReq),
    ChangeLoginPassword |-> Rpc(ChangeLoginPasswordReq),
    BindLoginPassword |-> Rpc(BindLoginPasswordReq), GetGradeList |-> Rpc(GetGradeListReq),
    SetPayPassword |-> Rpc(SetPayPasswordReq), VerifyPayPassword |-> Rpc(VerifyPayPasswordReq),
    ChangePayPassword |-> Rpc(ChangePayPasswordReq), GetInviteInfo |-> Rpc(GetInviteInfoReq),
    GetInviteList |-> Rpc(GetInviteListReq), GetUserMessages |-> Rpc(GetUserMessagesReq),
    GetUnreadCount |-> Rpc(GetUnreadCountReq), ReadMessage |-> Rpc(ReadMessageReq)]
CallGetUserInfo == Bare(UserClient, "GetUserInfo")
CallUserLogout == Bare(UserClient, "Logout")
CallBindEmail == FromBody(UserClient, "BindEmail")
CallBindMobile == FromBody(UserClient, "BindMobile")
CallChangeLoginPassword == FromBody(UserClient, "ChangeLoginPassword")
CallBindLoginPassword == FromBody(UserClient, "BindLoginPassword")
CallGetAppGradeList == Bare(UserClient, "GetGradeList")
CallSetPayPassword == FromBody(UserClient, "SetPayPassword")
CallVerifyPayPassword == FromBody(UserClient, "VerifyPayPassword")
CallChangePayPassword == FromBody(UserClient, "ChangePayPassword")
CallGetInviteInfo == Bare(UserClient, "GetInviteInfo")
CallGetInviteList == FromAny(UserClient, "GetInviteList")
CallGetUserMessages == FromQuery(UserClient, "GetUserMessages")
CallGetUnreadCount == Bare(UserClient, "GetUnreadCount")
CallReadMessage == Needing({"message_id"}, FromBody(UserClient, "ReadMessage"))

(* initFrontendRoutes.  A key is the suffix of the path, as its segments, and the method. *)
frontendRoutes == {
  Route(<<"register">>, "POST", CallUserRegister),
  Route(<<"login">>, "POST", CallUserLogin),
  Route(<<"captcha">>, "GET", CallGenerateCaptcha),
  Route(<<"refresh-token">>, "POST", CallRefreshToken),
  Route(<<"user-info">>, "GET", CallGetUserInfo),
  Route(<<"logout">>, "POST", CallUserLogout),
  Route(<<"bind-email">>, "POST", CallBindEmail),
  Route(<<"bind-mobile">>, "POST", CallBindMobile),
  Route(<<"change-login-password">>, "POST", CallChangeLoginPassword),
  Route(<<"bind-login-password">>, "POST", CallBindLoginPassword),
  Route(<<"grade-list">>, "GET", CallGetAppGradeList),
  Route(<<"set-pay-password">>, "POST", CallSetPayPassword),
  Route(<<"verify-pay-password">>, "POST", CallVerifyPayPassword),
  Route(<<"change-pay-password">>, "POST", CallChangePayPassword),
  Route(<<"invite-list">>, "GET", CallGetInviteList),
  Route(<<"notice-list">>, "GET", CallGetAppNoticeList),
  Route(<<"ad-list">>, "GET", CallGetAppAdList),
  Route(<<"setting-site">>, "GET", CallGetSiteSetting),
  Route(<<"site-activity-list">>, "GET", CallGetSiteActivityList),
  Route(<<"app-user-messages">>, "GET", CallGetUserMessages),
  Route(<<"app-unread-count">>, "GET", CallGetUnreadCount),
  Route(<<"app-read-message">>, "POST", CallReadMessage)}
================================================================================
