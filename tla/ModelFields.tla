----------------------------- MODULE ModelFields -----------------------------
(***************************************************************************)
(* What models.py declares of each field: its type, and whether it may be     *)
(* None.  A field that may not be None either has a neutral value (0, False,  *)
(* the empty string), which it `has` when the wire gives nothing, or is one    *)
(* without which there is no such entry, and which the wire `must` give.       *)
(*                                                                         *)
(* An `unchecked' field is optional by its declaration like any other.  Its   *)
(* parser copies what the wire holds, a number or an object too, so the        *)
(* declaration is broken where the wire gives no string.                     *)
(***************************************************************************)
EXTENDS WireFields

\* The type of a field, and its presence.
Must(type) == [type |-> type, presence |-> "must"]
Has(type) == [type |-> type, presence |-> "has"]
Optional(type) == [type |-> type, presence |-> "optional"]
Unchecked(type) == [type |-> type, presence |-> "unchecked"]

\* Accounts and agreements.
BusinessAgreementModel ==
    [business_agreement_number |-> Must("name"), active |-> Has("bool"),
     consumption_address |-> Optional("object"),
     electricity_contract |-> Optional("object"), gas_contract |-> Optional("object")]
ConsumptionAddressModel ==
    [f \in {"street", "house_number", "postal_code", "city", "country", "country_code",
            "premises_number", "box_number", "floor", "room_number", "supplement",
            "location_supplement"} |-> Unchecked("str")]
ContractInfoModel ==
    [has_smart_meter |-> Has("bool"), active |-> Has("bool"), has_solar |-> Has("bool")]
AccountRelationModel ==
    [customer_account |-> Must("object"), customer_account_number |-> Must("name"),
     id |-> Has("str"), admin |-> Has("bool"), name |-> Unchecked("str"),
     segment |-> Unchecked("str"), language |-> Unchecked("str")]

\* Prices and energy contracts.
PriceSlotModel ==
    [time_of_use_slot_code |-> Has("str"), price_value |-> Has("float"),
     price_value_excl_vat |-> Has("float")]
PricePeriodModel ==
    [vat_tariff |-> Has("float"), valid_from |-> Optional("date"),
     valid_to |-> Optional("date")]
EanPricesModel == [ean |-> Has("str")]
EnergyContractModel ==
    [business_agreement_number |-> Has("str"), service_point_number |-> Has("str"),
     division |-> Has("str"), status |-> Has("str"),
     product_configuration |-> Optional("object")]
ProductConfigurationModel ==
    [energy_product |-> Unchecked("str"), type |-> Unchecked("str"),
     green_level |-> Optional("str"), green_origin |-> Optional("str")]

\* Peaks and the account balance.
PeakModel ==
    [start |-> Must("datetime"), end |-> Must("datetime"), peak_kw |-> Has("float"),
     peak_kwh |-> Has("float")]
MonthlyPeaksModel ==
    [year |-> Has("int"), month |-> Has("int"),
     peak_of_the_month |-> Optional("object"),
     previous_peak_of_the_month |-> Optional("object")]
FinancialTransactionModel ==
    [due_amount |-> Has("float"), open_amount |-> Has("float"),
     type |-> Unchecked("str"), invoice_type |-> Unchecked("str"),
     due_date |-> Optional("date")]
AccountBalanceModel ==
    [refund_blocked |-> Has("bool"), status |-> Unchecked("str"),
     overview |-> Optional("object"), details |-> Optional("object")]
BillingOverviewModel ==
    [f \in {"total_amount", "open_amount", "due_amount",
            "pending_online_payments_amount",
            "installment_plan_amount"} |-> Has("float")]
BillingDetailsModel == [invoice_structured_communication |-> Unchecked("str")]

\* Happy hours and feature flags.
HappyHourMonthDataModel ==
    [consumption_kwh |-> Has("float"), reward_euros |-> Has("float"),
     eligible_hours |-> Has("int"), is_calculation_ongoing |-> Has("bool"),
     comparison |-> Optional("object")]
HappyHourComparisonModel ==
    [consumption_kwh_pct_change |-> Has("float"),
     eligible_hours_pct_change |-> Has("float"),
     reward_euros_pct_change |-> Has("float")]
EnergyCostPairModel == [kwh |-> Optional("float"), cost |-> Optional("float")]
MonthReportHistoryEntryModel ==
    [year_month |-> Must("month"), happy_hour |-> Optional("object"),
     electricity_offtake |-> Optional("object"),
     electricity_injection |-> Optional("object"), gas |-> Optional("object")]
SimulatedEnergyFlowModel == [kwh |-> Optional("float")]
SimulatedEnergyModel ==
    [electricity_offtake |-> Optional("object"),
     electricity_injection |-> Optional("object"), gas |-> Optional("object")]
SimulatedCostFlowModel == [amount |-> Optional("float")]
SimulatedCostModel ==
    [electricity_offtake |-> Optional("object"),
     electricity_injection |-> Optional("object"), gas |-> Optional("object"),
     total |-> Optional("float")]
HappyHourMonthReportModel ==
    [current |-> Optional("object"), simulated_energy |-> Optional("object"),
     simulated_cost |-> Optional("object"), gas |-> Optional("object"),
     year_month |-> Optional("str"), partial_historical_data |-> Optional("bool"),
     partial_year_month_data |-> Optional("bool")]
FeatureFlagModel == [value |-> Has("bool"), reason |-> Optional("str")]

\* Solar surplus.
SolarSurplusSlotModel ==
    [start_time |-> Must("datetime"), value |-> Optional("float"),
     level |-> Optional("str")]
SolarSurplusDayModel ==
    [forecast_date |-> Optional("date"),
     forecast_creation_date |-> Optional("datetime"), inference_key |-> Optional("str"),
     level |-> Optional("str")]

\* Time of use.
TouSlotModel ==
    [start_time |-> Must("str"), end_time |-> Must("str"), slot_code |-> Must("str"),
     cost_indicator |-> Optional("int")]
TouCombinedSlotModel ==
    [start_time |-> Must("str"), end_time |-> Must("str"),
     supplier_slot_code |-> Must("str"), dgo_tgo_slot_code |-> Must("str"),
     cost_indicator |-> Optional("int")]
TouCombinedScheduleModel ==
    [supplier_active_configuration_id |-> Optional("str"),
     dgo_tgo_active_configuration_id |-> Optional("str"),
     offtake |-> Optional("object"), injection |-> Optional("object")]
TouScheduleModel ==
    [active_configuration_id |-> Optional("str"), offtake |-> Optional("object"),
     injection |-> Optional("object")]
TouGridMeterScheduleModel ==
    [grid_meter_number |-> Optional("str"), exclusive_night_meter |-> Optional("bool"),
     supplier |-> Optional("object"), dgo_tgo |-> Optional("object"),
     combined |-> Optional("object")]
TouScheduleItemModel == [ean_with_suffix |-> Must("str")]

\* Usage.
UsageTouPartModel == [slot_code |-> Must("name"), value |-> Has("float")]
UsageTouCrossPartModel ==
    [supplier_slot_code |-> Must("name"), distribution_slot_code |-> Must("name"),
     value |-> Has("float")]
UsageDirectionBreakdownModel ==
    [kwh_sum |-> Optional("float"), amount_sum |-> Optional("float")]
UsageElectricityBreakdownModel ==
    [offtake |-> Optional("object"), injection |-> Optional("object"),
     netto |-> Optional("float")]
GasUsageModel == [kwh |-> Has("float"), cost |-> Optional("float")]
UsageItemModel ==
    [start |-> Must("datetime"), end |-> Must("datetime"), partial_data |-> Has("bool"),
     electricity |-> Optional("object"), gas |-> Optional("object"),
     energy |-> Optional("object"), costs |-> Optional("object"),
     simulated_energy |-> Optional("object"), simulated_costs |-> Optional("object"),
     simulated_gas |-> Optional("object"),
     gas_and_electricity_cost |-> Optional("float"),
     simulated_gas_and_electricity_cost |-> Optional("float")]
ElectricityUsageModel ==
    [offtake_kwh |-> Has("float"), injection_kwh |-> Has("float"),
     netto_kwh |-> Has("float")]
UsageDetailsResponseModel == [total |-> Optional("object")]

\* Service points and meters.
MeteringConfigurationModel ==
    [f \in {"metering_method_frequency", "metering_method_type",
            "metering_reads_for_information", "register_type_configuration",
            "smart_meter_regime", "supplier_billing_frequency"} |-> Optional("str")]
ServicePointInstallationModel ==
    [budget_meter |-> Has("bool"), installation_id |-> Optional("str"),
     rtp_component_id |-> Optional("str"), service_component |-> Optional("str"),
     metering_configuration |-> Optional("object")]
ServicePointMarketDetailsModel ==
    [dgo |-> Optional("str"), grid |-> Optional("str"),
     installation |-> Optional("object")]
ServicePointModel ==
    [charging_station |-> Has("bool"), ean |-> Optional("str"),
     division |-> Optional("str"), type |-> Optional("str"),
     premises_id |-> Optional("str"), market_details |-> Optional("object")]
MeasuredDataWindowModel ==
    [available |-> Has("bool"), start |-> Optional("datetime"),
     end |-> Optional("datetime")]
DataAvailabilityModel ==
    [quarter_hourly |-> Optional("object"), daily |-> Optional("object")]
MeteringDataSourceModel ==
    [active |-> Has("bool"), applicable |-> Has("bool"),
     service_start_date |-> Optional("datetime"),
     service_end_date |-> Optional("datetime"), status |-> Optional("str"),
     type |-> Optional("str"), upgradable_to |-> Optional("str")]
MeteringDataSourcesModel ==
    [f \in {"p1", "p4", "billing", "meter_reads", "imv"} |-> Optional("object")]
MeteringServicePointModel ==
    [ean |-> Must("name"), has_solar |-> Has("bool"),
     ean_with_suffix |-> Optional("str"), division |-> Optional("str"),
     metering_method_type |-> Optional("str"), region |-> Optional("str"),
     dgo |-> Optional("str"), data_availability |-> Optional("object"),
     data_sources |-> Optional("object")]
MeterRegisterReadModel ==
    [index_read |-> Must("float"), active |-> Has("bool"),
     meter_number |-> Optional("str"), register_number |-> Optional("str"),
     unit |-> Optional("str"), register_type |-> Optional("str"),
     direction |-> Optional("str"), minimum_index_read_range |-> Optional("float"),
     maximum_index_read_range |-> Optional("float")]
MeterReadModel ==
    [ean |-> Must("name"), read_date |-> Must("date"),
     ean_with_suffix |-> Optional("str"), division |-> Optional("str"),
     origin |-> Optional("str")]

\* Budget billing.
PaymentSliceModel == [payment_date |-> Must("date"), status |-> Optional("str")]
MonthlyBilledBudgetModel ==
    [start_date |-> Optional("date"), end_date |-> Optional("date"),
     already_used_amount |-> Optional("float"),
     already_used_amount_ratio |-> Optional("float"),
     already_paid_amount |-> Optional("float"),
     expected_cost_amount |-> Optional("float"),
     expected_month_cost_amount |-> Optional("float"),
     current_month_cost_amount |-> Optional("float"),
     last_invoiced_amount |-> Optional("float")]
BillingPeriodUsageModel ==
    [start_date |-> Optional("date"), end_date |-> Optional("date"),
     expected_year_invoice |-> Optional("float"), used_amount |-> Optional("float"),
     used_amount_ratio |-> Optional("float"),
     used_amount_failure_reason |-> Optional("str")]
BudgetBillingPlanProposalFactorModel ==
    [event |-> Optional("str"), change_type |-> Optional("str"),
     weight |-> Optional("float")]
BudgetBillingPlanProposalModel ==
    [significant |-> Has("bool"), outlier |-> Has("bool"),
     change_type |-> Optional("str"), simulation_date |-> Optional("date"),
     proposed_amount |-> Optional("float")]
BudgetBillingPlanLimitsModel ==
    [lower_limit |-> Optional("float"), upper_limit |-> Optional("float"),
     exceptional_limit |-> Optional("float")]
BudgetBillingPlanModel ==
    [current_amount |-> Optional("float"), monthly_amount |-> Optional("float"),
     amount_paid |-> Optional("float"), billing_cycle_total |-> Optional("float"),
     billing_cycle |-> Optional("str"), remaining_slices |-> Optional("int"),
     next_partial_invoice_date |-> Optional("date")]
BudgetBillingPlanContractPeriodModel ==
    [is_contract_for_chm |-> Has("bool"), is_contract_for_bana |-> Has("bool"),
     is_contract_for_uncommon_registers |-> Has("bool"), plan_updatable |-> Has("bool"),
     has_insufficient_history_after_move |-> Has("bool"),
     has_meter_replacement |-> Has("bool"), contract_id |-> Optional("str"),
     energy_contract_configuration_id |-> Optional("str"), division |-> Optional("str"),
     plan_updatable_information |-> Optional("str"),
     proposal_evaluation_status |-> Optional("str"), start_date |-> Optional("date"),
     end_date |-> Optional("date"), plan |-> Optional("object"),
     update_limits |-> Optional("object"), proposal |-> Optional("object"),
     expected_periodic_invoice_amount |-> Optional("float"),
     remaining_amount |-> Optional("float")]
BudgetBillingPlanDetailsModel ==
    [plan_updatable |-> Has("bool"), has_different_billing_cycle |-> Has("bool"),
     has_different_invoice_frequencies |-> Has("bool"),
     has_unaligned_billing_periods |-> Has("bool"), has_chm |-> Has("bool"),
     has_bana |-> Has("bool"), has_uncommon_registers |-> Has("bool"),
     has_insufficient_history_after_move |-> Has("bool"),
     has_meter_replacement |-> Has("bool"), business_agreement_id |-> Optional("str"),
     plan_updatable_information |-> Optional("str"),
     proposal_evaluation_status |-> Optional("str"), start_date |-> Optional("date"),
     end_date |-> Optional("date"), plan |-> Optional("object"),
     update_limits |-> Optional("object"), proposal |-> Optional("object"),
     expected_periodic_invoice_amount |-> Optional("float"),
     remaining_amount |-> Optional("float")]
HappyHourEligibilityModel == [eligible |-> Optional("bool")]

\* Happy-hour status and energy score.
HappyHourServiceStatusModel ==
    [status |-> Optional("str"), status_date |-> Optional("datetime")]
EnergyScoreDataAvailabilityModel ==
    [meter_type |-> Optional("str"), automatic_data_flow |-> Optional("str"),
     has_meter_reads_in_current_month |-> Optional("bool"),
     has_consumption_data_end_of_month |-> Optional("bool")]
EnergyScoreQuestionAnswerModel ==
    [question_id |-> Optional("int"), answer_score_value |-> Optional("int"),
     answer_bool |-> Optional("bool"), answer_label |-> Optional("str")]
EnergyScoreCriteriaModel ==
    [f \in {"consumption_availability", "energy_question", "has_checked_monthly_graph",
            "sobriety_electricity", "sobriety_gas"} |-> Optional("bool")]
EnergyScoreActionsModel ==
    [activate_automatic_data |-> Optional("bool"),
     enter_meter_reads |-> Optional("bool"),
     present_energy_question |-> Optional("bool")]
EnergyScoreDetailsModel ==
    [contract_configuration |-> Optional("str"),
     viewed_energy_score_details |-> Optional("bool"),
     has_checked_monthly_graph_details |-> Optional("bool"),
     energy_question |-> Optional("object"), electricity |-> Optional("object"),
     gas |-> Optional("object")]
EnergyScoreModel ==
    [business_agreement_number |-> Optional("str"), score |-> Optional("str"),
     last_updated |-> Optional("date"), criteria |-> Optional("object"),
     actions |-> Optional("object"), details |-> Optional("object")]

\* Vehicles.
EvServiceModel ==
    [type |-> Must("name"), status |-> Optional("str"),
     activation |-> Optional("datetime"), deactivation |-> Optional("datetime")]
EvServiceInfoModel ==
    [has_rewardable_contract |-> Optional("bool"),
     customer_onboarded |-> Optional("bool")]
VehicleCapabilitiesModel ==
    [f \in {"information", "charge_state", "location", "odometer", "set_max_current",
            "start_charging", "stop_charging", "smart_charging"} |-> Optional("bool")]
VehicleChargeStateModel ==
    [status |-> Optional("str"), policy_state |-> Optional("str"),
     session_type |-> Optional("str"), business_agreement_number |-> Optional("str"),
     updated_at |-> Optional("datetime"), charge_power |-> Optional("float"),
     battery_level |-> Optional("int"), max_battery_level |-> Optional("int"),
     range |-> Optional("int"), session_has_error |-> Optional("bool")]
ElectricVehicleModel ==
    [id |-> Must("int"), vin |-> Optional("str"), model_name |-> Optional("str"),
     display_name |-> Optional("str"), brand_name |-> Optional("str"),
     brand_logo_url |-> Optional("str"), active |-> Optional("bool"),
     reachable |-> Optional("bool"), brand_id |-> Optional("int"),
     year |-> Optional("int"), capabilities |-> Optional("object"),
     charge_state |-> Optional("object"), updated_at |-> Optional("datetime"),
     created_at |-> Optional("datetime")]
DepartureTimesModel ==
    [mode |-> Optional("str"), monday |-> Optional("time"),
     tuesday |-> Optional("time"), wednesday |-> Optional("time"),
     thursday |-> Optional("time"), friday |-> Optional("time"),
     saturday |-> Optional("time"), sunday |-> Optional("time")]
ChargeSettingValueModel ==
    [mode |-> Optional("str"), current_value |-> Optional("int"),
     min_value |-> Optional("int"), max_value |-> Optional("int")]
VehicleChargeSettingsModel ==
    [departure_times |-> Optional("object"), battery_reserve |-> Optional("object"),
     target_battery_level |-> Optional("object"),
     smart_charging_enabled |-> Optional("bool"),
     solar_charging_enabled |-> Optional("bool"),
     max_target_battery_level |-> Optional("int")]

\* Charging sessions.
SmartChargeOutcomeModel ==
    [state |-> Optional("str"), battery_level_at_ready_by |-> Optional("int"),
     minimum_charge_target_reached_at |-> Optional("datetime")]
ChargingSessionModel ==
    [id |-> Must("int"), vehicle_name |-> Optional("str"),
     session_type |-> Optional("str"), status |-> Optional("str"),
     source |-> Optional("str"), business_agreement_number |-> Optional("str"),
     start |-> Optional("datetime"), end |-> Optional("datetime"),
     pause_end |-> Optional("datetime"), updated_at |-> Optional("datetime"),
     battery_level_start |-> Optional("int"), battery_level_end |-> Optional("int"),
     total_consumption_kwh |-> Optional("float"), cost |-> Optional("float"),
     reward |-> Optional("float"), smart_charge_outcome |-> Optional("object")]
ChargingSessionConsumptionModel == [start |-> Must("datetime"), kwh |-> Must("float")]
ChargingSessionDetailsModel == [session |-> Optional("object")]
ChargingSessionChargeSettingsModel ==
    [target_battery_level |-> Optional("int"),
     departure_time_override |-> Optional("datetime"), direct |-> Optional("bool")]
ChargingSessionsPageModel ==
    [f \in {"page_number", "page_size", "total_items",
            "total_pages"} |-> Optional("int")]
ChargingSessionsSummaryEntryModel ==
    [start |-> Must("datetime"), session_count |-> Optional("int"),
     total_consumption_kwh |-> Optional("float"),
     managed_consumption_kwh |-> Optional("float"),
     public_consumption_kwh |-> Optional("float"), cost |-> Optional("float"),
     reward |-> Optional("float")]
ChargingSessionsSummaryModel == [oldest_session_reached |-> Optional("bool")]

\* Reasons of an eligibility.
HappyHourReasonModel == [reason |-> Must("name")]

Models ==
    [BusinessAgreement |-> BusinessAgreementModel,
     ConsumptionAddress |-> ConsumptionAddressModel, ContractInfo |-> ContractInfoModel,
     AccountRelation |-> AccountRelationModel, PriceSlot |-> PriceSlotModel,
     PricePeriod |-> PricePeriodModel, EanPrices |-> EanPricesModel,
     EnergyContract |-> EnergyContractModel,
     ProductConfiguration |-> ProductConfigurationModel, Peak |-> PeakModel,
     MonthlyPeaks |-> MonthlyPeaksModel,
     FinancialTransaction |-> FinancialTransactionModel,
     AccountBalance |-> AccountBalanceModel, BillingOverview |-> BillingOverviewModel,
     BillingDetails |-> BillingDetailsModel,
     HappyHourMonthData |-> HappyHourMonthDataModel,
     HappyHourComparison |-> HappyHourComparisonModel,
     EnergyCostPair |-> EnergyCostPairModel,
     MonthReportHistoryEntry |-> MonthReportHistoryEntryModel,
     SimulatedEnergyFlow |-> SimulatedEnergyFlowModel,
     SimulatedEnergy |-> SimulatedEnergyModel,
     SimulatedCostFlow |-> SimulatedCostFlowModel, SimulatedCost |-> SimulatedCostModel,
     HappyHourMonthReport |-> HappyHourMonthReportModel, FeatureFlag |-> FeatureFlagModel,
     SolarSurplusSlot |-> SolarSurplusSlotModel, SolarSurplusDay |-> SolarSurplusDayModel,
     TouSlot |-> TouSlotModel, TouCombinedSlot |-> TouCombinedSlotModel,
     TouCombinedSchedule |-> TouCombinedScheduleModel, TouSchedule |-> TouScheduleModel,
     TouGridMeterSchedule |-> TouGridMeterScheduleModel,
     TouScheduleItem |-> TouScheduleItemModel, UsageTouPart |-> UsageTouPartModel,
     UsageTouCrossPart |-> UsageTouCrossPartModel,
     UsageDirectionBreakdown |-> UsageDirectionBreakdownModel,
     UsageElectricityBreakdown |-> UsageElectricityBreakdownModel,
     GasUsage |-> GasUsageModel, UsageItem |-> UsageItemModel,
     ElectricityUsage |-> ElectricityUsageModel,
     UsageDetailsResponse |-> UsageDetailsResponseModel,
     MeteringConfiguration |-> MeteringConfigurationModel,
     ServicePointInstallation |-> ServicePointInstallationModel,
     ServicePointMarketDetails |-> ServicePointMarketDetailsModel,
     ServicePoint |-> ServicePointModel, MeasuredDataWindow |-> MeasuredDataWindowModel,
     DataAvailability |-> DataAvailabilityModel,
     MeteringDataSource |-> MeteringDataSourceModel,
     MeteringDataSources |-> MeteringDataSourcesModel,
     MeteringServicePoint |-> MeteringServicePointModel,
     MeterRegisterRead |-> MeterRegisterReadModel, MeterRead |-> MeterReadModel,
     PaymentSlice |-> PaymentSliceModel, MonthlyBilledBudget |-> MonthlyBilledBudgetModel,
     BillingPeriodUsage |-> BillingPeriodUsageModel,
     BudgetBillingPlanProposalFactor |-> BudgetBillingPlanProposalFactorModel,
     BudgetBillingPlanProposal |-> BudgetBillingPlanProposalModel,
     BudgetBillingPlanLimits |-> BudgetBillingPlanLimitsModel,
     BudgetBillingPlan |-> BudgetBillingPlanModel,
     BudgetBillingPlanContractPeriod |-> BudgetBillingPlanContractPeriodModel,
     BudgetBillingPlanDetails |-> BudgetBillingPlanDetailsModel,
     HappyHourEligibility |-> HappyHourEligibilityModel,
     HappyHourServiceStatus |-> HappyHourServiceStatusModel,
     EnergyScoreDataAvailability |-> EnergyScoreDataAvailabilityModel,
     EnergyScoreQuestionAnswer |-> EnergyScoreQuestionAnswerModel,
     EnergyScoreCriteria |-> EnergyScoreCriteriaModel,
     EnergyScoreActions |-> EnergyScoreActionsModel,
     EnergyScoreDetails |-> EnergyScoreDetailsModel, EnergyScore |-> EnergyScoreModel,
     EvService |-> EvServiceModel, EvServiceInfo |-> EvServiceInfoModel,
     VehicleCapabilities |-> VehicleCapabilitiesModel,
     VehicleChargeState |-> VehicleChargeStateModel,
     ElectricVehicle |-> ElectricVehicleModel, DepartureTimes |-> DepartureTimesModel,
     ChargeSettingValue |-> ChargeSettingValueModel,
     VehicleChargeSettings |-> VehicleChargeSettingsModel,
     SmartChargeOutcome |-> SmartChargeOutcomeModel,
     ChargingSession |-> ChargingSessionModel,
     ChargingSessionConsumption |-> ChargingSessionConsumptionModel,
     ChargingSessionDetails |-> ChargingSessionDetailsModel,
     ChargingSessionChargeSettings |-> ChargingSessionChargeSettingsModel,
     ChargingSessionsPage |-> ChargingSessionsPageModel,
     ChargingSessionsSummaryEntry |-> ChargingSessionsSummaryEntryModel,
     ChargingSessionsSummary |-> ChargingSessionsSummaryModel,
     HappyHourReason |-> HappyHourReasonModel]

\* The models whose objects come in lists.
ListedModels ==
    {"AccountRelation", "BusinessAgreement", "EanPrices", "PricePeriod", "PriceSlot",
     "EnergyContract", "Peak", "FinancialTransaction", "MonthReportHistoryEntry",
     "SolarSurplusDay", "SolarSurplusSlot", "TouScheduleItem", "TouGridMeterSchedule",
     "TouSlot", "TouCombinedSlot", "UsageItem", "UsageTouPart", "UsageTouCrossPart",
     "MeteringServicePoint", "MeterRead", "MeterRegisterRead", "PaymentSlice",
     "BudgetBillingPlanContractPeriod", "BudgetBillingPlanProposalFactor", "EvService",
     "ElectricVehicle", "ChargingSession", "ChargingSessionConsumption",
     "ChargingSessionsSummaryEntry", "HappyHourReason"}

-----------------------------------------------------------------------------
(* Types.  A name is a string that is not empty.                            *)

\* The kinds of JSON value that denote a value of a type.
Denotes ==
    [datetime |-> {"aware"}, date |-> {"date", "aware", "naive"}, month |-> {"month"},
     time |-> {"time", "digits", "month"}, str |-> Strings, name |-> Strings \ {"empty"},
     int |-> {"integer"}, float |-> {"integer", "fraction"}, bool |-> {"boolean"},
     object |-> {"object"}]

\* The value denoted, and all values of the type.
Meaning(type, v) ==
    CASE type \in {"date", "month"} -> "date"
      [] type = "time" -> "time"
      [] type = "float" -> "float"
      [] OTHER -> v
Values(type) ==
    {Meaning(type, v) : v \in Denotes[type]} \cup (IF type \in {"int", "float"} THEN {"zero"} ELSE {})

\* An entry has all that its model must have.
WellFormed(model, entry) ==
    \A f \in DOMAIN Models[model] :
        Models[model][f].presence = "must" => entry[f] \in Denotes[Models[model][f].type]

\* An object of a model is true to the entry it was made of: each field holds a
\* value of its type, or None where it may, and the one the entry denotes if it
\* denotes one.  An empty string says nothing.  Of an unchecked field only the
\* latter is asked: where the entry denotes no string, it holds what the entry holds.
TrueTo(model, entry, object) ==
    /\ DOMAIN object = DOMAIN Models[model]
    /\ \A f \in DOMAIN object :
          LET declared == Models[model][f]
          IN  /\ \/ object[f] \in Values(declared.type)
                 \/ declared.presence = "optional" /\ object[f] = "null"
                 \/ declared.presence = "unchecked" /\ object[f] = entry[f]
              /\ entry[f] \in Denotes[declared.type] \ {"empty"}
                    => object[f] = Meaning(declared.type, entry[f])

\* An entry with something good in every field, and entries with one field of any
\* kind at all.
Exemplar ==
    [datetime |-> "aware", date |-> "date", month |-> "month", time |-> "time", str |-> "text",
     name |-> "text", int |-> "integer", float |-> "fraction", bool |-> "boolean",
     object |-> "object"]
Good(model) == [f \in DOMAIN Models[model] |-> Exemplar[Models[model][f].type]]
WithOneOdd(model, fields) == {[Good(model) EXCEPT ![f] = k] : f \in fields, k \in Kinds}
MustFields(model) == {f \in DOMAIN Models[model] : Models[model][f].presence = "must"}
=============================================================================
