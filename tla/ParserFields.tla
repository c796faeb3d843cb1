---------------------------- MODULE ParserFields ----------------------------
(***************************************************************************)
(* How parsers.py makes each field of a model, by the model's own names of    *)
(* the fields: the converter, and whether the parser gives the entry up       *)
(* when the converter makes nothing of the field.  Lists of entries are        *)
(* SkippedEntries', and no field here.  A field that lies deeper in the entry   *)
(* (a capability's isCapable) stands for what its path leads to, which is null  *)
(* where the path meets no object.                                          *)
(***************************************************************************)
EXTENDS WireFields

\* The converter of a field, and whether the entry needs what it makes.
Needs(how) == [how |-> how, needed |-> TRUE]
Reads(how) == [how |-> how, needed |-> FALSE]

\* Accounts and agreements.
BusinessAgreementFields ==
    [business_agreement_number |-> Needs("AsStrOrNone"), active |-> Reads("Truthy"),
     consumption_address |-> Reads("Parsed"), electricity_contract |-> Reads("Parsed"),
     gas_contract |-> Reads("Parsed")]
ConsumptionAddressFields ==
    [f \in {"street", "house_number", "postal_code", "city", "country", "country_code",
            "premises_number", "box_number", "floor", "room_number", "supplement",
            "location_supplement"} |-> Reads("Copied")]
ContractInfoFields ==
    [has_smart_meter |-> Reads("Truthy"), active |-> Reads("Truthy"),
     has_solar |-> Reads("Truthy")]
AccountRelationFields ==
    [customer_account |-> Needs("Parsed"),
     customer_account_number |-> Needs("AsStrOrNone"), id |-> Reads("AsStr"),
     admin |-> Reads("Truthy"), name |-> Reads("Copied"), segment |-> Reads("Copied"),
     language |-> Reads("Copied")]

\* Prices and energy contracts.
PriceSlotFields ==
    [time_of_use_slot_code |-> Reads("AsStr"), price_value |-> Reads("AsFloat"),
     price_value_excl_vat |-> Reads("AsFloat")]
PricePeriodFields ==
    [valid_from |-> Reads("AsDate"), valid_to |-> Reads("AsDate"),
     vat_tariff |-> Reads("AsFloat")]
EanPricesFields == [ean |-> Reads("AsStr")]
EnergyContractFields ==
    [business_agreement_number |-> Reads("AsStr"),
     service_point_number |-> Reads("AsStr"), division |-> Reads("AsStr"),
     status |-> Reads("AsStr"), product_configuration |-> Reads("Parsed")]
ProductConfigurationFields ==
    [energy_product |-> Reads("Copied"), type |-> Reads("Copied"),
     green_level |-> Reads("AsStrOrNone"), green_origin |-> Reads("AsStrOrNone")]

\* Peaks and the account balance.
PeakFields ==
    [start |-> Needs("AsAwareDatetime"), end |-> Needs("AsAwareDatetime"),
     peak_kw |-> Reads("AsFloat"), peak_kwh |-> Reads("AsFloat")]
MonthlyPeaksFields ==
    [year |-> Reads("AsInt"), month |-> Reads("AsInt"),
     peak_of_the_month |-> Reads("Parsed"),
     previous_peak_of_the_month |-> Reads("Parsed")]
FinancialTransactionFields ==
    [type |-> Reads("Copied"), invoice_type |-> Reads("Copied"),
     due_amount |-> Reads("AsFloat"), open_amount |-> Reads("AsFloat"),
     due_date |-> Reads("AsDate")]
AccountBalanceFields ==
    [status |-> Reads("Copied"), overview |-> Reads("Parsed"),
     details |-> Reads("Parsed"), refund_blocked |-> Reads("Truthy")]
BillingOverviewFields ==
    [f \in {"total_amount", "open_amount", "due_amount",
            "pending_online_payments_amount",
            "installment_plan_amount"} |-> Reads("AsFloat")]
BillingDetailsFields == [invoice_structured_communication |-> Reads("Copied")]

\* Happy hours and feature flags.
HappyHourMonthDataFields ==
    [consumption_kwh |-> Reads("AsFloat"), reward_euros |-> Reads("AsFloat"),
     eligible_hours |-> Reads("AsInt"), is_calculation_ongoing |-> Reads("Truthy"),
     comparison |-> Reads("Parsed")]
HappyHourComparisonFields ==
    [consumption_kwh_pct_change |-> Reads("AsFloat"),
     eligible_hours_pct_change |-> Reads("AsFloat"),
     reward_euros_pct_change |-> Reads("AsFloat")]
EnergyCostPairFields ==
    [kwh |-> Reads("AsFloatOrNone"), cost |-> Reads("AsFloatOrNone")]
MonthReportHistoryEntryFields ==
    [year_month |-> Needs("AsYearMonth"), happy_hour |-> Reads("Parsed"),
     electricity_offtake |-> Reads("Parsed"), electricity_injection |-> Reads("Parsed"),
     gas |-> Reads("Parsed")]
SimulatedEnergyFlowFields == [kwh |-> Reads("AsFloatOrNone")]
SimulatedEnergyFields ==
    [electricity_offtake |-> Reads("Parsed"), electricity_injection |-> Reads("Parsed"),
     gas |-> Reads("Parsed")]
SimulatedCostFlowFields == [amount |-> Reads("AsFloatOrNone")]
SimulatedCostFields ==
    [electricity_offtake |-> Reads("Parsed"), electricity_injection |-> Reads("Parsed"),
     gas |-> Reads("Parsed"), total |-> Reads("AsFloatOrNone")]
HappyHourMonthReportFields ==
    [current |-> Reads("Parsed"), simulated_energy |-> Reads("Parsed"),
     simulated_cost |-> Reads("Parsed"), gas |-> Reads("Parsed"),
     year_month |-> Reads("IsStr"), partial_historical_data |-> Reads("AsBoolOrNone"),
     partial_year_month_data |-> Reads("AsBoolOrNone")]
FeatureFlagFields == [value |-> Reads("Truthy"), reason |-> Reads("IsStr")]

\* Solar surplus.
SolarSurplusSlotFields ==
    [start_time |-> Needs("AsAwareDatetime"), value |-> Reads("TryFloat"),
     level |-> Reads("NormalizeVocab")]
SolarSurplusDayFields ==
    [forecast_date |-> Reads("AsDate"),
     forecast_creation_date |-> Reads("AsAwareDatetime"),
     inference_key |-> Reads("NormalizeVocab"), level |-> Reads("NormalizeVocab")]

\* Time of use.
TouSlotFields ==
    [start_time |-> Needs("IsStr"), end_time |-> Needs("IsStr"),
     slot_code |-> Needs("IsStr"), cost_indicator |-> Reads("AsId")]
TouCombinedSlotFields ==
    [start_time |-> Needs("IsStr"), end_time |-> Needs("IsStr"),
     supplier_slot_code |-> Needs("IsStr"), dgo_tgo_slot_code |-> Needs("IsStr"),
     cost_indicator |-> Reads("AsId")]
TouCombinedScheduleFields ==
    [supplier_active_configuration_id |-> Reads("AsStrOrNone"),
     dgo_tgo_active_configuration_id |-> Reads("AsStrOrNone"),
     offtake |-> Reads("Parsed"), injection |-> Reads("Parsed")]
TouScheduleFields ==
    [active_configuration_id |-> Reads("IsStr"), offtake |-> Reads("Parsed"),
     injection |-> Reads("Parsed")]
TouGridMeterScheduleFields ==
    [grid_meter_number |-> Reads("IsStr"),
     exclusive_night_meter |-> Reads("AsBoolOrNone"), supplier |-> Reads("Parsed"),
     dgo_tgo |-> Reads("Parsed"), combined |-> Reads("Parsed")]
TouScheduleItemFields == [ean_with_suffix |-> Needs("IsStr")]

\* Usage.
UsageTouPartFields == [slot_code |-> Needs("AsStrOrNone"), value |-> Reads("AsFloat")]
UsageTouCrossPartFields ==
    [supplier_slot_code |-> Needs("AsStrOrNone"),
     distribution_slot_code |-> Needs("AsStrOrNone"), value |-> Reads("AsFloat")]
UsageDirectionBreakdownFields ==
    [kwh_sum |-> Reads("AsFloatOrNone"), amount_sum |-> Reads("AsFloatOrNone")]
UsageElectricityBreakdownFields ==
    [offtake |-> Reads("Parsed"), injection |-> Reads("Parsed"),
     netto |-> Reads("AsFloatOrNone")]
GasUsageFields == [kwh |-> Reads("AsFloat"), cost |-> Reads("AsFloatOrNone")]
UsageItemFields ==
    [start |-> Needs("AsAwareDatetime"), end |-> Needs("AsAwareDatetime"),
     partial_data |-> Reads("Truthy"), electricity |-> Reads("Parsed"),
     gas |-> Reads("Parsed"), energy |-> Reads("Parsed"), costs |-> Reads("Parsed"),
     simulated_energy |-> Reads("Parsed"), simulated_costs |-> Reads("Parsed"),
     simulated_gas |-> Reads("Parsed"),
     gas_and_electricity_cost |-> Reads("AsFloatOrNone"),
     simulated_gas_and_electricity_cost |-> Reads("AsFloatOrNone")]
ElectricityUsageFields ==
    [offtake_kwh |-> Reads("AsFloat"), injection_kwh |-> Reads("AsFloat"),
     netto_kwh |-> Reads("AsFloat")]
UsageDetailsResponseFields == [total |-> Reads("Parsed")]

\* Service points and meters.
MeteringConfigurationFields ==
    [f \in {"metering_method_frequency", "metering_method_type",
            "metering_reads_for_information", "register_type_configuration",
            "smart_meter_regime",
            "supplier_billing_frequency"} |-> Reads("AsStrOrNone")]
ServicePointInstallationFields ==
    [installation_id |-> Reads("AsStrOrNone"),
     rtp_component_id |-> Reads("AsStrOrNone"),
     service_component |-> Reads("AsStrOrNone"), budget_meter |-> Reads("Truthy"),
     metering_configuration |-> Reads("Parsed")]
ServicePointMarketDetailsFields ==
    [dgo |-> Reads("AsStrOrNone"), grid |-> Reads("AsStrOrNone"),
     installation |-> Reads("Parsed")]
ServicePointFields ==
    [ean |-> Reads("AsStrOrNone"), division |-> Reads("AsStrOrNone"),
     type |-> Reads("AsStrOrNone"), premises_id |-> Reads("AsStrOrNone"),
     charging_station |-> Reads("Truthy"), market_details |-> Reads("Parsed")]
MeasuredDataWindowFields ==
    [available |-> Reads("Truthy"), start |-> Reads("AsAwareDatetime"),
     end |-> Reads("AsAwareDatetime")]
DataAvailabilityFields ==
    [quarter_hourly |-> Reads("Parsed"), daily |-> Reads("Parsed")]
MeteringDataSourceFields ==
    [active |-> Reads("Truthy"), applicable |-> Reads("Truthy"),
     service_start_date |-> Reads("AsAwareDatetime"),
     service_end_date |-> Reads("AsAwareDatetime"), status |-> Reads("AsStrOrNone"),
     type |-> Reads("AsStrOrNone"), upgradable_to |-> Reads("AsStrOrNone")]
MeteringDataSourcesFields ==
    [f \in {"p1", "p4", "billing", "meter_reads", "imv"} |-> Reads("Parsed")]
MeteringServicePointFields ==
    [ean |-> Needs("AsStrOrNone"), ean_with_suffix |-> Reads("AsStrOrNone"),
     division |-> Reads("AsStrOrNone"), metering_method_type |-> Reads("AsStrOrNone"),
     region |-> Reads("AsStrOrNone"), dgo |-> Reads("AsStrOrNone"),
     has_solar |-> Reads("Truthy"), data_availability |-> Reads("Parsed"),
     data_sources |-> Reads("Parsed")]
MeterRegisterReadFields ==
    [index_read |-> Needs("AsNumber"), meter_number |-> Reads("AsStrOrNone"),
     register_number |-> Reads("AsStrOrNone"), unit |-> Reads("AsStrOrNone"),
     register_type |-> Reads("AsStrOrNone"), direction |-> Reads("AsStrOrNone"),
     active |-> Reads("Truthy"), minimum_index_read_range |-> Reads("AsFloatOrNone"),
     maximum_index_read_range |-> Reads("AsFloatOrNone")]
MeterReadFields ==
    [ean |-> Needs("AsStrOrNone"), read_date |-> Needs("AsDate"),
     ean_with_suffix |-> Reads("AsStrOrNone"), division |-> Reads("AsStrOrNone"),
     origin |-> Reads("AsStrOrNone")]

\* Budget billing.
PaymentSliceFields ==
    [payment_date |-> Needs("AsDate"), status |-> Reads("AsStrOrNone")]
MonthlyBilledBudgetFields ==
    [start_date |-> Reads("AsDate"), end_date |-> Reads("AsDate"),
     already_used_amount |-> Reads("AsFloatOrNone"),
     already_used_amount_ratio |-> Reads("AsFloatOrNone"),
     already_paid_amount |-> Reads("AsFloatOrNone"),
     expected_cost_amount |-> Reads("AsFloatOrNone"),
     expected_month_cost_amount |-> Reads("AsFloatOrNone"),
     current_month_cost_amount |-> Reads("AsFloatOrNone"),
     last_invoiced_amount |-> Reads("AsFloatOrNone")]
BillingPeriodUsageFields ==
    [start_date |-> Reads("AsDate"), end_date |-> Reads("AsDate"),
     expected_year_invoice |-> Reads("AsFloatOrNone"),
     used_amount |-> Reads("AsFloatOrNone"),
     used_amount_ratio |-> Reads("AsFloatOrNone"),
     used_amount_failure_reason |-> Reads("AsStrOrNone")]
BudgetBillingPlanProposalFactorFields ==
    [event |-> Reads("AsStrOrNone"), change_type |-> Reads("AsStrOrNone"),
     weight |-> Reads("AsFloatOrNone")]
BudgetBillingPlanProposalFields ==
    [change_type |-> Reads("AsStrOrNone"), simulation_date |-> Reads("AsDate"),
     proposed_amount |-> Reads("AsFloatOrNone"), significant |-> Reads("Truthy"),
     outlier |-> Reads("Truthy")]
BudgetBillingPlanLimitsFields ==
    [lower_limit |-> Reads("AsFloatOrNone"), upper_limit |-> Reads("AsFloatOrNone"),
     exceptional_limit |-> Reads("AsFloatOrNone")]
BudgetBillingPlanFields ==
    [current_amount |-> Reads("AsFloatOrNone"),
     monthly_amount |-> Reads("AsFloatOrNone"), amount_paid |-> Reads("AsFloatOrNone"),
     billing_cycle_total |-> Reads("AsFloatOrNone"),
     billing_cycle |-> Reads("AsStrOrNone"), remaining_slices |-> Reads("AsIntOrNone"),
     next_partial_invoice_date |-> Reads("AsDate")]
BudgetBillingPlanContractPeriodFields ==
    [contract_id |-> Reads("AsStrOrNone"),
     energy_contract_configuration_id |-> Reads("AsStrOrNone"),
     division |-> Reads("AsStrOrNone"),
     plan_updatable_information |-> Reads("AsStrOrNone"),
     proposal_evaluation_status |-> Reads("AsStrOrNone"),
     start_date |-> Reads("AsDate"), end_date |-> Reads("AsDate"),
     is_contract_for_chm |-> Reads("Truthy"), is_contract_for_bana |-> Reads("Truthy"),
     is_contract_for_uncommon_registers |-> Reads("Truthy"),
     plan_updatable |-> Reads("Truthy"),
     has_insufficient_history_after_move |-> Reads("Truthy"),
     has_meter_replacement |-> Reads("Truthy"), plan |-> Reads("Parsed"),
     update_limits |-> Reads("Parsed"), proposal |-> Reads("Parsed"),
     expected_periodic_invoice_amount |-> Reads("AsFloatOrNone"),
     remaining_amount |-> Reads("AsFloatOrNone")]
BudgetBillingPlanDetailsFields ==
    [business_agreement_id |-> Reads("AsStrOrNone"),
     plan_updatable_information |-> Reads("AsStrOrNone"),
     proposal_evaluation_status |-> Reads("AsStrOrNone"),
     start_date |-> Reads("AsDate"), end_date |-> Reads("AsDate"),
     plan |-> Reads("Parsed"), update_limits |-> Reads("Parsed"),
     proposal |-> Reads("Parsed"), plan_updatable |-> Reads("Truthy"),
     has_different_billing_cycle |-> Reads("Truthy"),
     has_different_invoice_frequencies |-> Reads("Truthy"),
     has_unaligned_billing_periods |-> Reads("Truthy"), has_chm |-> Reads("Truthy"),
     has_bana |-> Reads("Truthy"), has_uncommon_registers |-> Reads("Truthy"),
     has_insufficient_history_after_move |-> Reads("Truthy"),
     has_meter_replacement |-> Reads("Truthy"),
     expected_periodic_invoice_amount |-> Reads("AsFloatOrNone"),
     remaining_amount |-> Reads("AsFloatOrNone")]
HappyHourEligibilityFields == [eligible |-> Reads("AsBoolOrNone")]

\* Happy-hour status and energy score.
HappyHourServiceStatusFields ==
    [status |-> Reads("AsStrOrNone"), status_date |-> Reads("AsAwareDatetime")]
EnergyScoreDataAvailabilityFields ==
    [meter_type |-> Reads("AsStrOrNone"), automatic_data_flow |-> Reads("AsStrOrNone"),
     has_meter_reads_in_current_month |-> Reads("AsBoolOrNone"),
     has_consumption_data_end_of_month |-> Reads("AsBoolOrNone")]
EnergyScoreQuestionAnswerFields ==
    [question_id |-> Reads("AsIntOrNone"), answer_score_value |-> Reads("AsIntOrNone"),
     answer_bool |-> Reads("AsBoolOrNone"), answer_label |-> Reads("AsStrOrNone")]
EnergyScoreCriteriaFields ==
    [f \in {"consumption_availability", "energy_question", "has_checked_monthly_graph",
            "sobriety_electricity", "sobriety_gas"} |-> Reads("AsBoolOrNone")]
EnergyScoreActionsFields ==
    [activate_automatic_data |-> Reads("AsBoolOrNone"),
     enter_meter_reads |-> Reads("AsBoolOrNone"),
     present_energy_question |-> Reads("AsBoolOrNone")]
EnergyScoreDetailsFields ==
    [contract_configuration |-> Reads("AsStrOrNone"),
     viewed_energy_score_details |-> Reads("AsBoolOrNone"),
     has_checked_monthly_graph_details |-> Reads("AsBoolOrNone"),
     energy_question |-> Reads("Parsed"), electricity |-> Reads("Parsed"),
     gas |-> Reads("Parsed")]
EnergyScoreFields ==
    [business_agreement_number |-> Reads("AsStrOrNone"), score |-> Reads("AsStrOrNone"),
     last_updated |-> Reads("AsDate"), criteria |-> Reads("Parsed"),
     actions |-> Reads("Parsed"), details |-> Reads("Parsed")]

\* Vehicles.
EvServiceFields ==
    [type |-> Needs("AsStrOrNone"), status |-> Reads("AsStrOrNone"),
     activation |-> Reads("AsAwareDatetime"), deactivation |-> Reads("AsAwareDatetime")]
EvServiceInfoFields ==
    [has_rewardable_contract |-> Reads("AsBoolOrNone"),
     customer_onboarded |-> Reads("AsBoolOrNone")]
VehicleCapabilitiesFields ==
    [f \in {"information", "charge_state", "location", "odometer", "set_max_current",
            "start_charging", "stop_charging",
            "smart_charging"} |-> Reads("AsBoolOrNone")]
VehicleChargeStateFields ==
    [status |-> Reads("NormalizeVocab"), policy_state |-> Reads("NormalizeVocab"),
     session_type |-> Reads("NormalizeVocab"), updated_at |-> Reads("AsAwareDatetime"),
     charge_power |-> Reads("AsFloatOrNone"), battery_level |-> Reads("AsIntOrNone"),
     max_battery_level |-> Reads("AsIntOrNone"), range |-> Reads("AsIntOrNone"),
     session_has_error |-> Reads("AsBoolOrNone"),
     business_agreement_number |-> Reads("AsStrOrNone")]
ElectricVehicleFields ==
    [id |-> Needs("AsId"), vin |-> Reads("AsStrOrNone"),
     model_name |-> Reads("AsStrOrNone"), display_name |-> Reads("AsStrOrNone"),
     brand_name |-> Reads("AsStrOrNone"), brand_logo_url |-> Reads("AsStrOrNone"),
     active |-> Reads("AsBoolOrNone"), reachable |-> Reads("AsBoolOrNone"),
     brand_id |-> Reads("AsIntOrNone"), year |-> Reads("AsIntOrNone"),
     capabilities |-> Reads("Parsed"), charge_state |-> Reads("Parsed"),
     updated_at |-> Reads("AsAwareDatetime"), created_at |-> Reads("AsAwareDatetime")]
DepartureTimesFields ==
    [mode |-> Reads("NormalizeVocab"), monday |-> Reads("AsWallTime"),
     tuesday |-> Reads("AsWallTime"), wednesday |-> Reads("AsWallTime"),
     thursday |-> Reads("AsWallTime"), friday |-> Reads("AsWallTime"),
     saturday |-> Reads("AsWallTime"), sunday |-> Reads("AsWallTime")]
ChargeSettingValueFields ==
    [mode |-> Reads("NormalizeVocab"), current_value |-> Reads("AsIntOrNone"),
     min_value |-> Reads("AsIntOrNone"), max_value |-> Reads("AsIntOrNone")]
VehicleChargeSettingsFields ==
    [departure_times |-> Reads("Parsed"), battery_reserve |-> Reads("Parsed"),
     target_battery_level |-> Reads("Parsed"),
     smart_charging_enabled |-> Reads("AsBoolOrNone"),
     solar_charging_enabled |-> Reads("AsBoolOrNone"),
     max_target_battery_level |-> Reads("AsIntOrNone")]

\* Charging sessions.
SmartChargeOutcomeFields ==
    [state |-> Reads("NormalizeVocab"),
     battery_level_at_ready_by |-> Reads("AsIntOrNone"),
     minimum_charge_target_reached_at |-> Reads("AsAwareDatetime")]
ChargingSessionFields ==
    [id |-> Needs("AsId"), vehicle_name |-> Reads("AsStrOrNone"),
     business_agreement_number |-> Reads("AsStrOrNone"),
     session_type |-> Reads("NormalizeVocab"), status |-> Reads("NormalizeVocab"),
     source |-> Reads("NormalizeVocab"), start |-> Reads("AsAwareDatetime"),
     end |-> Reads("AsAwareDatetime"), pause_end |-> Reads("AsAwareDatetime"),
     updated_at |-> Reads("AsAwareDatetime"),
     battery_level_start |-> Reads("AsIntOrNone"),
     battery_level_end |-> Reads("AsIntOrNone"),
     total_consumption_kwh |-> Reads("AsFloatOrNone"), cost |-> Reads("AsFloatOrNone"),
     reward |-> Reads("AsFloatOrNone"), smart_charge_outcome |-> Reads("Parsed")]
ChargingSessionConsumptionFields ==
    [start |-> Needs("AsAwareDatetime"), kwh |-> Needs("AsNumber")]
ChargingSessionDetailsFields == [session |-> Reads("Parsed")]
ChargingSessionChargeSettingsFields ==
    [target_battery_level |-> Reads("AsIntOrNone"),
     departure_time_override |-> Reads("AsAwareDatetime"),
     direct |-> Reads("AsBoolOrNone")]
ChargingSessionsPageFields ==
    [f \in {"page_number", "page_size", "total_items",
            "total_pages"} |-> Reads("AsIntOrNone")]
ChargingSessionsSummaryEntryFields ==
    [start |-> Needs("AsAwareDatetime"), session_count |-> Reads("AsIntOrNone"),
     total_consumption_kwh |-> Reads("AsFloatOrNone"),
     managed_consumption_kwh |-> Reads("AsFloatOrNone"),
     public_consumption_kwh |-> Reads("AsFloatOrNone"), cost |-> Reads("AsFloatOrNone"),
     reward |-> Reads("AsFloatOrNone")]
ChargingSessionsSummaryFields == [oldest_session_reached |-> Reads("AsBoolOrNone")]

\* The reasons of an eligibility are strings, and no objects.
HappyHourReasonFields == [reason |-> Needs("AsStrOrNone")]

Parsers ==
    [BusinessAgreement |-> BusinessAgreementFields,
     ConsumptionAddress |-> ConsumptionAddressFields, ContractInfo |-> ContractInfoFields,
     AccountRelation |-> AccountRelationFields, PriceSlot |-> PriceSlotFields,
     PricePeriod |-> PricePeriodFields, EanPrices |-> EanPricesFields,
     EnergyContract |-> EnergyContractFields,
     ProductConfiguration |-> ProductConfigurationFields, Peak |-> PeakFields,
     MonthlyPeaks |-> MonthlyPeaksFields,
     FinancialTransaction |-> FinancialTransactionFields,
     AccountBalance |-> AccountBalanceFields, BillingOverview |-> BillingOverviewFields,
     BillingDetails |-> BillingDetailsFields,
     HappyHourMonthData |-> HappyHourMonthDataFields,
     HappyHourComparison |-> HappyHourComparisonFields,
     EnergyCostPair |-> EnergyCostPairFields,
     MonthReportHistoryEntry |-> MonthReportHistoryEntryFields,
     SimulatedEnergyFlow |-> SimulatedEnergyFlowFields,
     SimulatedEnergy |-> SimulatedEnergyFields,
     SimulatedCostFlow |-> SimulatedCostFlowFields, SimulatedCost |-> SimulatedCostFields,
     HappyHourMonthReport |-> HappyHourMonthReportFields,
     FeatureFlag |-> FeatureFlagFields, SolarSurplusSlot |-> SolarSurplusSlotFields,
     SolarSurplusDay |-> SolarSurplusDayFields, TouSlot |-> TouSlotFields,
     TouCombinedSlot |-> TouCombinedSlotFields,
     TouCombinedSchedule |-> TouCombinedScheduleFields, TouSchedule |-> TouScheduleFields,
     TouGridMeterSchedule |-> TouGridMeterScheduleFields,
     TouScheduleItem |-> TouScheduleItemFields, UsageTouPart |-> UsageTouPartFields,
     UsageTouCrossPart |-> UsageTouCrossPartFields,
     UsageDirectionBreakdown |-> UsageDirectionBreakdownFields,
     UsageElectricityBreakdown |-> UsageElectricityBreakdownFields,
     GasUsage |-> GasUsageFields, UsageItem |-> UsageItemFields,
     ElectricityUsage |-> ElectricityUsageFields,
     UsageDetailsResponse |-> UsageDetailsResponseFields,
     MeteringConfiguration |-> MeteringConfigurationFields,
     ServicePointInstallation |-> ServicePointInstallationFields,
     ServicePointMarketDetails |-> ServicePointMarketDetailsFields,
     ServicePoint |-> ServicePointFields, MeasuredDataWindow |-> MeasuredDataWindowFields,
     DataAvailability |-> DataAvailabilityFields,
     MeteringDataSource |-> MeteringDataSourceFields,
     MeteringDataSources |-> MeteringDataSourcesFields,
     MeteringServicePoint |-> MeteringServicePointFields,
     MeterRegisterRead |-> MeterRegisterReadFields, MeterRead |-> MeterReadFields,
     PaymentSlice |-> PaymentSliceFields,
     MonthlyBilledBudget |-> MonthlyBilledBudgetFields,
     BillingPeriodUsage |-> BillingPeriodUsageFields,
     BudgetBillingPlanProposalFactor |-> BudgetBillingPlanProposalFactorFields,
     BudgetBillingPlanProposal |-> BudgetBillingPlanProposalFields,
     BudgetBillingPlanLimits |-> BudgetBillingPlanLimitsFields,
     BudgetBillingPlan |-> BudgetBillingPlanFields,
     BudgetBillingPlanContractPeriod |-> BudgetBillingPlanContractPeriodFields,
     BudgetBillingPlanDetails |-> BudgetBillingPlanDetailsFields,
     HappyHourEligibility |-> HappyHourEligibilityFields,
     HappyHourServiceStatus |-> HappyHourServiceStatusFields,
     EnergyScoreDataAvailability |-> EnergyScoreDataAvailabilityFields,
     EnergyScoreQuestionAnswer |-> EnergyScoreQuestionAnswerFields,
     EnergyScoreCriteria |-> EnergyScoreCriteriaFields,
     EnergyScoreActions |-> EnergyScoreActionsFields,
     EnergyScoreDetails |-> EnergyScoreDetailsFields, EnergyScore |-> EnergyScoreFields,
     EvService |-> EvServiceFields, EvServiceInfo |-> EvServiceInfoFields,
     VehicleCapabilities |-> VehicleCapabilitiesFields,
     VehicleChargeState |-> VehicleChargeStateFields,
     ElectricVehicle |-> ElectricVehicleFields, DepartureTimes |-> DepartureTimesFields,
     ChargeSettingValue |-> ChargeSettingValueFields,
     VehicleChargeSettings |-> VehicleChargeSettingsFields,
     SmartChargeOutcome |-> SmartChargeOutcomeFields,
     ChargingSession |-> ChargingSessionFields,
     ChargingSessionConsumption |-> ChargingSessionConsumptionFields,
     ChargingSessionDetails |-> ChargingSessionDetailsFields,
     ChargingSessionChargeSettings |-> ChargingSessionChargeSettingsFields,
     ChargingSessionsPage |-> ChargingSessionsPageFields,
     ChargingSessionsSummaryEntry |-> ChargingSessionsSummaryEntryFields,
     ChargingSessionsSummary |-> ChargingSessionsSummaryFields,
     HappyHourReason |-> HappyHourReasonFields]
=============================================================================
