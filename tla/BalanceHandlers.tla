--------------------------- MODULE BalanceHandlers ---------------------------
(* The handlers of grpc_client/balance: balances, deposits and withdrawals (jh_balance_service).
   For every gRPC service they call: the request messages, the client, and one handler per
   operation.  At the end, the table that route_handler.go (initBalanceRoutes) makes of them. *)
EXTENDS Handlers

(*** Balance, api/frontend/balance/v1 ***)
InitBalanceUserReq == {"site_id", "user_id", "username", "currency"}
InitBalanceUserRes == {"success", "message"}
RefreshBalanceReq == {}
AdjustBalanceReq == {"site_id", "user_id", "amount", "type", "game_name", "game_id", "game_key"}
AdjustBalanceRes == {"success", "message", "balance", "order_no"}
UpdateTransferStatusReq == {"order_no"}
UpdateTransferStatusRes == {"success", "message"}
CompensateBalanceReq == {"site_id", "user_id", "order_no", "amount"}
CompensateBalanceRes == {"success", "message"}
GetLastBalanceLogGameReq == {"site_id", "user_id"}
GetPaymentListReq == {}
GetWithdrawListReq == {}
AddBankCardReq == {"type", "card_account", "card_no", "is_default"}
AddBankCardRes == {"success", "message"}
GetBankCardListReq == {}
DeleteBankCardReq == {"id"}
DeleteBankCardRes == {"success", "message"}
SetDefaultBankCardReq == {"id"}
SetDefaultBankCardRes == {"success", "message"}
GetDepositNonceReq == {}
GetWithdrawNonceReq == {}
CreateDepositOrderReq == {
    "payment_id", "money", "order_type", "user_card_no", "user_card_name", "nonce",
    "bank_code", "mobile"}
GetBalanceLogReq == {"start", "end", "type", "status", "page", "size"}
GetUserFlowRequirementsReq == {"status", "page", "size"}
DepositCallbackReq == {"trade_status", "order_sn", "actual_amount", "sign"}
DepositCallbackRes == {"success", "message"}
WithdrawReq == {"money", "withdraw_id", "nonce"}
WithdrawRes == {"success", "message", "trade_no"}
GrantInviteBonusReq == {"site_id", "user_id", "amount", "remark"}
GrantInviteBonusRes == {"success", "message", "trade_no"}
GetInviteBonusSummaryReq == {"site_id", "user_id"}
GetValidReferralCountReq == {"site_id", "user_ids", "min_total"}
GetVipUpgradeProgressReq == {}
GetVipUpgradeProgressRes == {
    "success", "message", "current_grade_id", "current_grade_name", "next_grade_id",
    "next_grade_name", "deposit_amount", "bet_amount", "next_payment_limit", "next_bet_limit",
    "deposit_progress", "bet_progress", "progress", "is_max_grade"}
GetSigninActivityInfoReq == {}
GetSigninActivityInfoRes == {
    "success", "message", "active", "year", "month", "today", "today_signed", "signed_days",
    "signed_amount", "today_reward_amount", "day_list"}
ClaimSigninRewardReq == {}
ClaimSigninRewardRes == {
    "success", "message", "trade_no", "day_no", "reward_amount", "sign_date", "signed_days",
    "signed_amount"}
WashCodeRebateReq == {}
WashCodeRebateRes == {
    "success", "message", "trade_no", "valid_bet_amount", "rebate_percent", "rebate_amount",
    "grade_name", "max_bet_id"}
GetLuckySpinInfoReq == {}
GetLuckySpinInfoRes == {
    "success", "message", "active", "free_spins_per_day", "free_spins_left",
    "today_spin_count", "jackpot_amount", "total_won", "prize_list"}
LuckySpinReq == {}
LuckySpinRes == {
    "success", "message", "trade_no", "segment_no", "prize_name", "reward_amount",
    "free_spins_left", "today_spin_count", "total_won"}
GetLuckySpinRecordsReq == {"page", "size"}
GetLuckySpinRecordsRes == {"success", "message", "list", "count", "page", "size"}
GetLuckySpinRecentWinnersReq == {"limit"}
GetLuckySpinRecentWinnersRes == {"success", "message", "list"}
GetDepositBonusRecentWinnersReq == {"limit"}
GetDepositBonusRecentWinnersRes == {"success", "message", "list"}
GetRegisterBonusRecentWinnersReq == {"limit"}
GetRegisterBonusRecentWinnersRes == {"success", "message", "list"}
BalanceClient == [
    InitBalanceUser |-> RpcWithVerdict(InitBalanceUserReq, InitBalanceUserRes),
    RefreshBalance |-> Rpc(RefreshBalanceReq),
    AdjustBalance |-> RpcWithVerdict(AdjustBalanceReq, AdjustBalanceRes),
    UpdateTransferStatus |->
        RpcWithVerdict(UpdateTransferStatusReq, UpdateTransferStatusRes),
    CompensateBalance |-> RpcWithVerdict(CompensateBalanceReq, CompensateBalanceRes),
    GetLastBalanceLogGame |-> Rpc(GetLastBalanceLogGameReq),
    GetPaymentList |-> Rpc(GetPaymentListReq), GetWithdrawList |-> Rpc(GetWithdrawListReq),
    AddBankCard |-> RpcWithVerdict(AddBankCardReq, AddBankCardRes),
    GetBankCardList |-> Rpc(GetBankCardListReq),
    DeleteBankCard |-> RpcWithVerdict(DeleteBankCardReq, DeleteBankCardRes),
    SetDefaultBankCard |-> RpcWithVerdict(SetDefaultBankCardReq, SetDefaultBankCardRes),
    GetDepositNonce |-> Rpc(GetDepositNonceReq), GetWithdrawNonce |-> Rpc(GetWithdrawNonceReq),
    CreateDepositOrder |-> Rpc(CreateDepositOrderReq), GetBalanceLog |-> Rpc(GetBalanceLogReq),
    GetUserFlowRequirements |-> Rpc(GetUserFlowRequirementsReq),
    DepositCallback |-> RpcWithVerdict(DepositCallbackReq, DepositCallbackRes),
    Withdraw |-> RpcWithVerdict(WithdrawReq, WithdrawRes),
    GrantInviteBonus |-> RpcWithVerdict(GrantInviteBonusReq, GrantInviteBonusRes),
    GetInviteBonusSummary |-> Rpc(GetInviteBonusSummaryReq),
    GetValidReferralCount |-> Rpc(GetValidReferralCountReq),
    GetVipUpgradeProgress |->
        RpcWithVerdict(GetVipUpgradeProgressReq, GetVipUpgradeProgressRes),
    GetSigninActivityInfo |->
        RpcWithVerdict(GetSigninActivityInfoReq, GetSigninActivityInfoRes),
    ClaimSigninReward |-> RpcWithVerdict(ClaimSigninRewardReq, ClaimSigninRewardRes),
    WashCodeRebate |-> RpcWithVerdict(WashCodeRebateReq, WashCodeRebateRes),
    GetLuckySpinInfo |-> RpcWithVerdict(GetLuckySpinInfoReq, GetLuckySpinInfoRes),
    LuckySpin |-> RpcWithVerdict(LuckySpinReq, LuckySpinRes),
    GetLuckySpinRecords |-> RpcWithVerdict(GetLuckySpinRecordsReq, GetLuckySpinRecordsRes),
    GetLuckySpinRecentWinners |->
        RpcWithVerdict(GetLuckySpinRecentWinnersReq, GetLuckySpinRecentWinnersRes),
    GetDepositBonusRecentWinners |->
        RpcWithVerdict(GetDepositBonusRecentWinnersReq, GetDepositBonusRecentWinnersRes),
    GetRegisterBonusRecentWinners |->
        RpcWithVerdict(GetRegisterBonusRecentWinnersReq, GetRegisterBonusRecentWinnersRes)]
CallRefreshBalance == Bare(BalanceClient, "RefreshBalance")
CallGetVipUpgradeProgress == Bare(BalanceClient, "GetVipUpgradeProgress")
CallGetSigninActivityInfo == Bare(BalanceClient, "GetSigninActivityInfo")
CallClaimSigninReward == Bare(BalanceClient, "ClaimSigninReward")
CallWashCodeRebate == Bare(BalanceClient, "WashCodeRebate")
CallGetLuckySpinInfo == Bare(BalanceClient, "GetLuckySpinInfo")
CallLuckySpin == Bare(BalanceClient, "LuckySpin")
CallGetLuckySpinRecords == FromBody(BalanceClient, "GetLuckySpinRecords")
CallGetLuckySpinRecentWinners == FromBody(BalanceClient, "GetLuckySpinRecentWinners")
CallGetDepositBonusRecentWinners == FromBody(BalanceClient, "GetDepositBonusRecentWinners")
CallGetRegisterBonusRecentWinners == FromBody(BalanceClient, "GetRegisterBonusRecentWinners")
CallGetPaymentList == Bare(BalanceClient, "GetPaymentList")
CallGetWithdrawList == Bare(BalanceClient, "GetWithdrawList")
CallAddBankCard == FromBody(BalanceClient, "AddBankCard")
CallGetBankCardList == Bare(BalanceClient, "GetBankCardList")
CallDeleteBankCard == FromBody(BalanceClient, "DeleteBankCard")
CallSetDefaultBankCard == FromBody(BalanceClient, "SetDefaultBankCard")
CallGetDepositNonce == Bare(BalanceClient, "GetDepositNonce")
CallGetWithdrawNonce == Bare(BalanceClient, "GetWithdrawNonce")
CallCreateDepositOrder == FromAny(BalanceClient, "CreateDepositOrder")
CallGetBalanceLog == FromAny(BalanceClient, "GetBalanceLog")
CallDepositCallback == FromAny(BalanceClient, "DepositCallback")
CallWithdraw == Needing({"money", "withdraw_id"}, FromBody(BalanceClient, "Withdraw"))
CallGetUserFlowRequirements == FromAny(BalanceClient, "GetUserFlowRequirements")

(*** Balance, api/backend/balance/v1 ***)
GetBalanceChangesReq == {
    "username", "change_type", "trade_type", "start_time", "end_time", "page", "size"}
GetLuckyBonusRecordsReq == {
    "user_id", "username", "trade_no", "start_time", "end_time", "page", "size", "site_id"}
GetDepositBonusRecordsReq == {
    "user_id", "username", "trade_no", "start_time", "end_time", "page", "size", "site_id"}
GetRegisterBonusRecordsReq == {
    "user_id", "username", "trade_no", "start_time", "end_time", "page", "size", "site_id"}
GetInviteBonusRecordsReq == {
    "inviter_id", "inviter_username", "invitee_id", "invitee_username", "trade_no",
    "start_time", "end_time", "page", "size", "site_id"}
GetSigninBonusRecordsReq == {
    "user_id", "username", "trade_no", "start_time", "end_time", "page", "size", "site_id"}
GetChangeListReq == {}
GetRechargePaymentsReq == {
    "username", "gateway", "payment_id", "account_id", "status", "trade_no", "domain",
    "start_time", "end_time", "page", "size"}
GetRechargeManualsReq == {"username", "status", "start_time", "end_time", "page", "size"}
ConfirmPaymentOrderReq == {"id", "remark"}
ConfirmPaymentOrderRes == {"success", "message"}
GetWithdrawsReq == {
    "username", "status", "trade_no", "domain", "start_time", "end_time", "page", "size"}
GetWithdrawManualsReq == {"username", "status", "start_time", "end_time", "page", "size"}
GetWithdrawReviewReq == {"id"}
DealWithWithdrawReq == {"id", "type", "fee", "remark"}
DealWithWithdrawRes == {"success", "message"}
QueryUserBalanceReq == {"user_id"}
QueryGameBalanceReq == {"game_id", "user_id"}
ManualUserBalanceReq == {"user_id", "type", "money", "remark"}
ManualUserBalanceRes == {"success", "message", "balance_old", "balance_new"}
GetSitePaymentsReq == {"payment_id", "status", "page", "size"}
UpdateSitePaymentReq == {
    "id", "status", "sort", "each_min", "each_max", "money_list", "is_input", "remark", "logo"}
UpdateSitePaymentRes == {"success", "message"}
GetSiteWithdrawsReq == {"withdraw_id", "status", "page", "size"}
UpdateSiteWithdrawReq == {
    "id", "status", "sort", "each_min", "each_max", "money_list", "is_input", "remark", "logo"}
UpdateSiteWithdrawRes == {"success", "message"}
GetManualListReq == {}
GetFlowRulesReq == {"site_id", "rule_type", "status", "rule_name", "page", "size"}
GetFlowRuleReq == {"id"}
CreateFlowRuleReq == {
    "rule_name", "rule_type", "flow_multiple", "expire_days", "status", "sort", "remark"}
CreateFlowRuleRes == {"success", "message", "id"}
UpdateFlowRuleReq == {
    "id", "rule_name", "rule_type", "flow_multiple", "expire_days", "status", "sort", "remark"}
UpdateFlowRuleRes == {"success", "message"}
DeleteFlowRuleReq == {"id"}
DeleteFlowRuleRes == {"success", "message"}
GetFlowOptionsReq == {}
GetFlowRequirementsReq == {
    "site_id", "user_id", "username", "status", "source_type", "start_time", "end_time",
    "page", "size"}
UpdateFlowRequirementReq == {"id", "status", "remark", "expire_time"}
UpdateFlowRequirementRes == {"success", "message"}
BackendBalanceClient == [
    GetBalanceChanges |-> Rpc(GetBalanceChangesReq),
    GetLuckyBonusRecords |-> Rpc(GetLuckyBonusRecordsReq),
    GetDepositBonusRecords |-> Rpc(GetDepositBonusRecordsReq),
    GetRegisterBonusRecords |-> Rpc(GetRegisterBonusRecordsReq),
    GetInviteBonusRecords |-> Rpc(GetInviteBonusRecordsReq),
    GetSigninBonusRecords |-> Rpc(GetSigninBonusRecordsReq),
    GetChangeList |-> Rpc(GetChangeListReq),
    GetRechargePayments |-> Rpc(GetRechargePaymentsReq),
    GetRechargeManuals |-> Rpc(GetRechargeManualsReq),
    ConfirmPaymentOrder |-> RpcWithVerdict(ConfirmPaymentOrderReq, ConfirmPaymentOrderRes),
    GetWithdraws |-> Rpc(GetWithdrawsReq), GetWithdrawManuals |-> Rpc(GetWithdrawManualsReq),
    GetWithdrawReview |-> Rpc(GetWithdrawReviewReq),
    DealWithWithdraw |-> RpcWithVerdict(DealWithWithdrawReq, DealWithWithdrawRes),
    QueryUserBalance |-> Rpc(QueryUserBalanceReq),
    QueryGameBalance |-> Rpc(QueryGameBalanceReq),
    ManualUserBalance |-> RpcWithVerdict(ManualUserBalanceReq, ManualUserBalanceRes),
    GetSitePayments |-> Rpc(GetSitePaymentsReq),
    UpdateSitePayment |-> RpcWithVerdict(UpdateSitePaymentReq, UpdateSitePaymentRes),
    GetSiteWithdraws |-> Rpc(GetSiteWithdrawsReq),
    UpdateSiteWithdraw |-> RpcWithVerdict(UpdateSiteWithdrawReq, UpdateSiteWithdrawRes),
    GetManualList |-> Rpc(GetManualListReq), GetFlowRules |-> Rpc(GetFlowRulesReq),
    GetFlowRule |-> Rpc(GetFlowRuleReq),
    CreateFlowRule |-> RpcWithVerdict(CreateFlowRuleReq, CreateFlowRuleRes),
    UpdateFlowRule |-> RpcWithVerdict(UpdateFlowRuleReq, UpdateFlowRuleRes),
    DeleteFlowRule |-> RpcWithVerdict(DeleteFlowRuleReq, DeleteFlowRuleRes),
    GetFlowOptions |-> Rpc(GetFlowOptionsReq),
    GetFlowRequirements |-> Rpc(GetFlowRequirementsReq),
    UpdateFlowRequirement |->
        RpcWithVerdict(UpdateFlowRequirementReq, UpdateFlowRequirementRes)]
CallGetBalanceChanges == FromAny(BackendBalanceClient, "GetBalanceChanges")
CallGetLuckyBonusRecords == FromAny(BackendBalanceClient, "GetLuckyBonusRecords")
CallGetDepositBonusRecords == FromAny(BackendBalanceClient, "GetDepositBonusRecords")
CallGetRegisterBonusRecords == FromAny(BackendBalanceClient, "GetRegisterBonusRecords")
CallGetInviteBonusRecords == FromAny(BackendBalanceClient, "GetInviteBonusRecords")
CallGetSigninBonusRecords == FromAny(BackendBalanceClient, "GetSigninBonusRecords")
CallGetChangeOptions == Bare(BackendBalanceClient, "GetChangeList")
CallGetFlowOptions == Bare(BackendBalanceClient, "GetFlowOptions")
CallGetRechargePayments == FromAny(BackendBalanceClient, "GetRechargePayments")
CallGetRechargeManuals == FromAny(BackendBalanceClient, "GetRechargeManuals")
CallConfirmPaymentOrder == Needing({"id"}, FromBody(BackendBalanceClient, "ConfirmPaymentOrder"))
CallGetWithdraws == FromAny(BackendBalanceClient, "GetWithdraws")
CallGetWithdrawManuals == FromAny(BackendBalanceClient, "GetWithdrawManuals")
CallGetWithdrawReview == Needing({"id"}, FromAny(BackendBalanceClient, "GetWithdrawReview"))
CallDealWithWithdraw == Needing({"id"}, FromBody(BackendBalanceClient, "DealWithWithdraw"))
CallQueryUserBalance == Needing({"user_id"}, FromBody(BackendBalanceClient, "QueryUserBalance"))
CallQueryGameBalance ==
  Needing({"game_id", "user_id"}, FromBody(BackendBalanceClient, "QueryGameBalance"))
CallManualUserBalance ==
  Needing({"money", "user_id"}, FromBody(BackendBalanceClient, "ManualUserBalance"))
CallGetManualList == Bare(BackendBalanceClient, "GetManualList")
CallGetSitePayments == FromAny(BackendBalanceClient, "GetSitePayments")
CallUpdateSitePayment == Needing({"id"}, FromBody(BackendBalanceClient, "UpdateSitePayment"))
CallGetSiteWithdraws == FromAny(BackendBalanceClient, "GetSiteWithdraws")
CallUpdateSiteWithdraw == Needing({"id"}, FromBody(BackendBalanceClient, "UpdateSiteWithdraw"))
CallGetFlowRules == FromAny(BackendBalanceClient, "GetFlowRules")
CallGetFlowRule == Needing({"id"}, FromAny(BackendBalanceClient, "GetFlowRule"))
CallCreateFlowRule == FromBody(BackendBalanceClient, "CreateFlowRule")
CallUpdateFlowRule == FromBody(BackendBalanceClient, "UpdateFlowRule")
CallDeleteFlowRule == FromBody(BackendBalanceClient, "DeleteFlowRule")
CallGetFlowRequirements ==
  LeavingOut({"site_id"}, FromAny(BackendBalanceClient, "GetFlowRequirements"))
CallUpdateFlowRequirement ==
  Needing({"id"}, FromBody(BackendBalanceClient, "UpdateFlowRequirement"))

(* initBalanceRoutes.  A key is the suffix of the path, as its segments, and the method. *)
balanceRoutes == {
  Route(<<"refresh-balance">>, "GET", CallRefreshBalance),
  Route(<<"payment-list">>, "GET", CallGetPaymentList),
  Route(<<"withdraw-list">>, "GET", CallGetWithdrawList),
  Route(<<"add-bank-card">>, "POST", CallAddBankCard),
  Route(<<"bank-card-list">>, "GET", CallGetBankCardList),
  Route(<<"delete-bank-card">>, "POST", CallDeleteBankCard),
  Route(<<"set-default-bank-card">>, "POST", CallSetDefaultBankCard),
  Route(<<"deposit-nonce">>, "GET", CallGetDepositNonce),
  Route(<<"withdraw-nonce">>, "GET", CallGetWithdrawNonce),
  Route(<<"deposit-order">>, "POST", CallCreateDepositOrder),
  Route(<<"balance-log">>, "GET", CallGetBalanceLog),
  Route(<<"my-flow-requirements">>, "GET", CallGetUserFlowRequirements),
  Route(<<"deposit-callback">>, "POST", CallDepositCallback),
  Route(<<"withdraw">>, "POST", CallWithdraw),
  Route(<<"vip-upgrade-progress">>, "GET", CallGetVipUpgradeProgress),
  Route(<<"signin-activity-info">>, "GET", CallGetSigninActivityInfo),
  Route(<<"signin-claim">>, "POST", CallClaimSigninReward),
  Route(<<"lucky-spin-info">>, "GET", CallGetLuckySpinInfo),
  Route(<<"lucky-spin">>, "POST", CallLuckySpin),
  Route(<<"lucky-spin-records">>, "GET", CallGetLuckySpinRecords),
  Route(<<"lucky-spin-recent-winners">>, "GET", CallGetLuckySpinRecentWinners),
  Route(<<"deposit-bonus-recent-winners">>, "GET", CallGetDepositBonusRecentWinners),
  Route(<<"register-bonus-recent-winners">>, "GET", CallGetRegisterBonusRecentWinners),
  Route(<<"wash-code-rebate">>, "POST", CallWashCodeRebate),
  Route(<<"balance-changes">>, "GET", CallGetBalanceChanges),
  Route(<<"lucky-bonus-records">>, "GET", CallGetLuckyBonusRecords),
  Route(<<"deposit-bonus-records">>, "GET", CallGetDepositBonusRecords),
  Route(<<"register-bonus-records">>, "GET", CallGetRegisterBonusRecords),
  Route(<<"invite-bonus-records">>, "GET", CallGetInviteBonusRecords),
  Route(<<"signin-bonus-records">>, "GET", CallGetSigninBonusRecords),
  Route(<<"options-change">>, "GET", CallGetChangeOptions),
  Route(<<"recharge-payment">>, "GET", CallGetRechargePayments),
  Route(<<"recharge-manual">>, "GET", CallGetRechargeManuals),
  Route(<<"confirm-payment-order">>, "POST", CallConfirmPaymentOrder),
  Route(<<"withdraws">>, "GET", CallGetWithdraws),
  Route(<<"withdraw-manual">>, "GET", CallGetWithdrawManuals),
  Route(<<"withdraw-review">>, "GET", CallGetWithdrawReview),
  Route(<<"deal-with-withdraw">>, "POST", CallDealWithWithdraw),
  Route(<<"query-user-balance">>, "POST", CallQueryUserBalance),
  Route(<<"query-game-balance">>, "POST", CallQueryGameBalance),
  Route(<<"manual-user-balance">>, "POST", CallManualUserBalance),
  Route(<<"options-manual">>, "GET", CallGetManualList),
  Route(<<"site-payments">>, "GET", CallGetSitePayments),
  Route(<<"update-site-payment">>, "POST", CallUpdateSitePayment),
  Route(<<"site-withdraws">>, "GET", CallGetSiteWithdraws),
  Route(<<"update-site-withdraw">>, "POST", CallUpdateSiteWithdraw),
  Route(<<"flow-options">>, "GET", CallGetFlowOptions),
  Route(<<"flow-rules">>, "GET", CallGetFlowRules),
  Route(<<"flow-rule">>, "GET", CallGetFlowRule),
  Route(<<"flow-rule", "create">>, "POST", CallCreateFlowRule),
  Route(<<"flow-rule", "update">>, "POST", CallUpdateFlowRule),
  Route(<<"flow-rule", "delete">>, "POST", CallDeleteFlowRule),
  Route(<<"flow-requirements">>, "GET", CallGetFlowRequirements),
  Route(<<"flow-requirement", "update">>, "POST", CallUpdateFlowRequirement)}
================================================================================
